---- MODULE Spec2Model ----
(***************************************************************************)
(* Model of the AuthBridge external processor                              *)
(* (AuthBridge/AuthProxy/go-processor/main.go): its streams (Spec,         *)
(* SpecStream), its startup (SpecMain) and the lock of its configuration   *)
(* (SpecLock); and of the validator of the demo-app                        *)
(* (AuthBridge/AuthProxy/quickstart/demo-app/main.go, SpecValidator).      *)
(* Also of the admission webhook that injects the AuthBridge sidecars      *)
(* (kagenti-webhook/internal/webhook, SpecWebhook).                        *)
(*                                                                         *)
(* Strings that the code takes apart (header values, tokens) are sequences *)
(* of chunks: "Bearer abc" is <<"Bearer ", "abc">> and "" is <<>>.         *)
(* Strings that the code only compares with "" (configuration fields) are  *)
(* plain strings.  One gRPC stream is one goroutine running Process; its   *)
(* blocking points (Recv, the POST to the token endpoint, Send) separate   *)
(* the actions.  Locals of a loop iteration (cur, reply, resp, form,       *)
(* posts) are reset when the iteration ends.                               *)
(***************************************************************************)
EXTENDS Integers, Sequences, FiniteSets, TLC

\* ------------------------------------------------------------------ bounds
NumStreams == 1
MaxHeaders == 1
NumReaders == 2

\* ------------------------------------------------------- program constants
StatusOK == 200

\* --------------------------------------------------------------- inputs
Streams == 1..NumStreams
Readers == 1..NumReaders

HeaderKeys == {"authorization", "Authorization", "x-user"}
HeaderValues == {<<"Bearer ", "T1">>, <<"bearer ", "T1">>, <<"Basic ", "T1">>}
\* a header that is not Authorization comes with the one value that would
\* matter if it were taken for it
HeaderValue ==
  {h \in [key : HeaderKeys, value : HeaderValues] :
     h.key = "x-user" => h.value = <<"Bearer ", "T1">>}

RECURSIVE SeqsUpTo(_, _)
SeqsUpTo(S, n) ==
  IF n = 0 THEN {<<>>}
  ELSE LET shorter == SeqsUpTo(S, n - 1)
       IN  shorter \cup {Append(q, x) : q \in {r \in shorter : Len(r) = n - 1}, x \in S}

\* *core.HeaderMap: nil, or a list of headers
NilMap == [nil |-> TRUE, headers |-> <<>>]
HeaderMaps == {NilMap} \cup {[nil |-> FALSE, headers |-> h] : h \in SeqsUpTo(HeaderValue, MaxHeaders)}

\* v3.ProcessingRequest: the oneof Request
NoEvent == [kind |-> "none", headers |-> NilMap]
Events ==
  {[kind |-> k, headers |-> hm] : k \in {"request_headers", "response_headers"}, hm \in HeaderMaps}
    \cup {[kind |-> "request_body", headers |-> NilMap]}

\* what the token endpoint does with one POST
\* a body is JSON (an object with these fields) or some other text; NoBody is
\* the body that was never read
NoBody == [json |-> FALSE, fields |-> {}, access_token |-> <<>>, text |-> ""]
Bodies ==
  { [json |-> TRUE,  fields |-> {"access_token", "token_type", "expires_in"},
     access_token |-> <<"T2">>, text |-> "token"],
    [json |-> TRUE,  fields |-> {"error", "error_description"},
     access_token |-> <<>>, text |-> "error"],
    [json |-> FALSE, fields |-> {}, access_token |-> <<>>, text |-> "<html>"] }
StatusCodes == {StatusOK, 201, 400}
NoReply == [transport |-> "none", status |-> 0, body |-> NoBody]
Replies ==
  { [transport |-> "post_failed", status |-> 0, body |-> NoBody] }
    \cup {[transport |-> "read_failed", status |-> c, body |-> NoBody] : c \in {StatusOK}}
    \cup {[transport |-> "ok", status |-> c, body |-> b] : c \in StatusCodes, b \in Bodies}

\* Config (without the lock); a field is "" or the value it was given
Config ==
  [ClientID : {"", "client-1"}, ClientSecret : {"", "secret-1"},
   TokenURL : {"", "http://keycloak/token"}, TargetAudience : {"", "auth-target"},
   TargetScopes : {"", "openid auth-target-aud"}]

\* ------------------------------------------------------------ pure code
\* strings.ToLower on the keys in use; strings.EqualFold compares folded keys
ToLower(k) == IF k = "Authorization" THEN "authorization" ELSE k
\* mutant: the keys are compared as they are
EqualFold_CaseSensitive(a, b) == a = b
EqualFold(a, b) == ToLower(a) = ToLower(b)

\* strings.TrimPrefix
TrimPrefix(s, prefix) == IF Len(s) > 0 /\ s[1] = prefix THEN Tail(s) ELSE s

\* getHeaderValue: the value of the first header whose key matches, else ""
RECURSIVE getHeaderValue(_, _)
getHeaderValue(headers, key) ==
  IF headers = <<>> THEN <<>>
  ELSE IF EqualFold(Head(headers).key, key) THEN Head(headers).value
  ELSE getHeaderValue(Tail(headers), key)

\* mutant: the gate forgets the scopes
ConfigComplete_ScopesForgotten(c) ==
  /\ c.ClientID # "" /\ c.ClientSecret # "" /\ c.TokenURL # ""
  /\ c.TargetAudience # ""
\* mutant: the gate forgets the credentials
ConfigComplete_CredentialsForgotten(c) ==
  c.TokenURL # "" /\ c.TargetAudience # "" /\ c.TargetScopes # ""
\* the condition at main.go:236
ConfigComplete(c) ==
  /\ c.ClientID # "" /\ c.ClientSecret # "" /\ c.TokenURL # ""
  /\ c.TargetAudience # "" /\ c.TargetScopes # ""

\* v3.ProcessingResponse
EmptyResponse == [kind |-> "none", setHeaders |-> <<>>, removeHeaders |-> <<>>]
UnmodifiedRequestHeaders == [kind |-> "request_headers", setHeaders |-> <<>>, removeHeaders |-> <<>>]
UnmodifiedResponseHeaders == [kind |-> "response_headers", setHeaders |-> <<>>, removeHeaders |-> <<>>]
\* mutant: the new token is set without the scheme
SetAuthorization_NoScheme(newToken) ==
  [kind |-> "request_headers",
   setHeaders |-> << [key |-> "authorization", value |-> newToken] >>,
   removeHeaders |-> <<>>]
SetAuthorization(newToken) ==
  [kind |-> "request_headers",
   setHeaders |-> << [key |-> "authorization", value |-> <<"Bearer ">> \o newToken] >>,
   removeHeaders |-> <<>>]

\* url.Values posted by exchangeToken
NoForm == [client_id |-> "", client_secret |-> "", subject_token |-> <<>>, audience |-> "", scope |-> ""]
Form(clientID, clientSecret, subjectToken, audience, scopes) ==
  [client_id |-> clientID, client_secret |-> clientSecret, subject_token |-> subjectToken,
   audience |-> audience, scope |-> scopes]

\* exchangeToken from the reply on: (token, err).  json.Unmarshal leaves
\* AccessToken "" when the object has no access_token.
NoErr == [kind |-> "nil", body |-> NoBody]
NoResult == [token |-> <<>>, err |-> NoErr]
\* mutant: the error for a bad status does not quote the body
exchangeToken_BodyDropped(r) ==
  IF r.transport = "post_failed" THEN [token |-> <<>>, err |-> [kind |-> "post", body |-> NoBody]]
  ELSE IF r.transport = "read_failed" THEN [token |-> <<>>, err |-> [kind |-> "read", body |-> NoBody]]
  ELSE IF r.status # StatusOK THEN [token |-> <<>>, err |-> [kind |-> "status", body |-> NoBody]]
  ELSE IF ~r.body.json THEN [token |-> <<>>, err |-> [kind |-> "unmarshal", body |-> NoBody]]
  ELSE [token |-> r.body.access_token, err |-> NoErr]
exchangeToken(r) ==
  IF r.transport = "post_failed" THEN [token |-> <<>>, err |-> [kind |-> "post", body |-> NoBody]]
  ELSE IF r.transport = "read_failed" THEN [token |-> <<>>, err |-> [kind |-> "read", body |-> NoBody]]
  ELSE IF r.status # StatusOK THEN [token |-> <<>>, err |-> [kind |-> "status", body |-> r.body]]
  ELSE IF ~r.body.json THEN [token |-> <<>>, err |-> [kind |-> "unmarshal", body |-> NoBody]]
  ELSE [token |-> r.body.access_token, err |-> NoErr]

\* what Process and exchangeToken write to the log while a request-headers
\* event is handled: every header but authorization and x-client-secret, the
\* configuration without the secret, and the body of a reply whose status is
\* not 200 (once by exchangeToken, once more inside the error that Process logs)
LoggedHeaders(hm) ==
  IF hm.nil THEN {}
  ELSE {hm.headers[i] : i \in {k \in 1..Len(hm.headers) :
                                 /\ ~EqualFold(hm.headers[k].key, "authorization")
                                 /\ ~EqualFold(hm.headers[k].key, "x-client-secret")}}
LoggedConfig(c) == {c.ClientID, c.TokenURL, c.TargetAudience, c.TargetScopes}
LoggedBodies(r) == IF r.transport = "ok" /\ r.status # StatusOK THEN {r.body} ELSE {}
\* Process, case RequestHeaders, up to the call of exchangeToken
RequestHeaders(c, hm) ==
  IF ConfigComplete(c)
  THEN IF hm.nil
       THEN [pc |-> "panic", resp |-> EmptyResponse, form |-> NoForm]
       ELSE LET authHeader == getHeaderValue(hm.headers, "authorization")
                subjectToken == TrimPrefix(TrimPrefix(authHeader, "Bearer "), "bearer ")
            IN  IF authHeader # <<>>
                THEN IF subjectToken # authHeader
                     THEN [pc |-> "exchange", resp |-> EmptyResponse,
                           form |-> Form(c.ClientID, c.ClientSecret, subjectToken,
                                         c.TargetAudience, c.TargetScopes)]
                     ELSE [pc |-> "send", resp |-> UnmodifiedRequestHeaders, form |-> NoForm]
                ELSE [pc |-> "send", resp |-> UnmodifiedRequestHeaders, form |-> NoForm]
  ELSE [pc |-> "send", resp |-> UnmodifiedRequestHeaders, form |-> NoForm]

\* mutant: err is not looked at
AfterExchange_ErrIgnored(res) == [pc |-> "send", resp |-> SetAuthorization(res.token)]
\* mutant: a failed exchange is tried again
AfterExchange_Retry(res) ==
  IF res.err = NoErr
  THEN [pc |-> "send", resp |-> SetAuthorization(res.token)]
  ELSE [pc |-> "exchange", resp |-> EmptyResponse]
\* mutant: a failed exchange skips the Send (continue)
AfterExchange_ContinueOnError(res) ==
  IF res.err = NoErr
  THEN [pc |-> "send", resp |-> SetAuthorization(res.token)]
  ELSE [pc |-> "recv", resp |-> EmptyResponse]
\* mutant: a failed exchange ends the stream with an error
AfterExchange_AbortOnError(res) ==
  IF res.err = NoErr
  THEN [pc |-> "send", resp |-> SetAuthorization(res.token)]
  ELSE [pc |-> "returned", resp |-> EmptyResponse]
\* Process, case RequestHeaders, after exchangeToken returned
AfterExchange(res) ==
  IF res.err = NoErr
  THEN [pc |-> "send", resp |-> SetAuthorization(res.token)]
  ELSE [pc |-> "send", resp |-> UnmodifiedRequestHeaders]

\* mutant: the response path strips the credentials it sees
ResponseHeaders_Mutating(hm) ==
  [pc |-> "send",
   resp |-> [kind |-> "response_headers", setHeaders |-> <<>>, removeHeaders |-> <<"authorization">>],
   form |-> NoForm]
\* Process, case ResponseHeaders
ResponseHeaders(hm) == [pc |-> "send", resp |-> UnmodifiedResponseHeaders, form |-> NoForm]

\* mutant: the default case returns from Process
UnknownRequest_EndsStream == [pc |-> "returned", resp |-> EmptyResponse, form |-> NoForm]
\* Process, default case
UnknownRequest == [pc |-> "send", resp |-> EmptyResponse, form |-> NoForm]

\* the type switch of Process
Dispatch(c, e) ==
  CASE e.kind = "request_headers" -> RequestHeaders(c, e.headers)
    [] e.kind = "response_headers" -> ResponseHeaders(e.headers)
    [] OTHER -> UnknownRequest

\* ------------------------------------------------- startup: pure code
\* the environment of the process: a variable is "" (unset or empty) or set
Environments ==
  [CLIENT_ID : {"", "env-client"}, CLIENT_SECRET : {"", "env-secret"},
   TOKEN_URL : {"", "http://keycloak/token"}, TARGET_AUDIENCE : {"auth-target"},
   TARGET_SCOPES : {"openid auth-target-aud"}]
EmptyEnvironment ==
  [CLIENT_ID |-> "", CLIENT_SECRET |-> "", TOKEN_URL |-> "", TARGET_AUDIENCE |-> "",
   TARGET_SCOPES |-> ""]

\* a credential file: missing (os.ReadFile fails), or its bytes in chunks
Missing == [exists |-> FALSE, data |-> <<>>]
FileStates(value) ==
  {Missing, [exists |-> TRUE, data |-> <<"\n">>], [exists |-> TRUE, data |-> <<value, "\n">>]}
\* the two files named by CLIENT_ID_FILE and CLIENT_SECRET_FILE (or the defaults)
Files == [id : FileStates("file-client"), secret : FileStates("file-secret")]
NoFiles == [id |-> Missing, secret |-> Missing]

\* strings.TrimSpace
IsSpace(chunk) == chunk \in {" ", "\n", "\t"}
RECURSIVE TrimLeft(_)
TrimLeft(d) == IF d # <<>> /\ IsSpace(Head(d)) THEN TrimLeft(Tail(d)) ELSE d
RECURSIVE TrimRight(_)
TrimRight(d) ==
  IF d # <<>> /\ IsSpace(d[Len(d)]) THEN TrimRight(SubSeq(d, 1, Len(d) - 1)) ELSE d
TrimSpace(d) == TrimRight(TrimLeft(d))
\* the chunks of a credential as the one string the configuration holds
String(d) == IF d = <<>> THEN "" ELSE d[1]

\* readFileContent: (content, err)
readFileContent(file) ==
  IF ~file.exists THEN [content |-> "", err |-> TRUE]
  ELSE [content |-> String(TrimSpace(file.data)), err |-> FALSE]

ZeroConfig ==
  [ClientID |-> "", ClientSecret |-> "", TokenURL |-> "", TargetAudience |-> "",
   TargetScopes |-> ""]

\* loadConfig of quickstart/demo-app/main.go: the environment first, the file
\* when the variable is empty; a credential that neither gives keeps its value
loadConfigQuickstart(prev, e, fs) ==
  LET id == readFileContent(fs.id)
      secret == readFileContent(fs.secret)
  IN  [ClientID |-> IF e.CLIENT_ID # "" THEN e.CLIENT_ID
                    ELSE IF ~id.err /\ id.content # "" THEN id.content
                    ELSE prev.ClientID,
       ClientSecret |-> IF e.CLIENT_SECRET # "" THEN e.CLIENT_SECRET
                        ELSE IF ~secret.err /\ secret.content # "" THEN secret.content
                        ELSE prev.ClientSecret,
       TokenURL |-> e.TOKEN_URL,
       TargetAudience |-> e.TARGET_AUDIENCE,
       TargetScopes |-> e.TARGET_SCOPES]
\* the files loadConfigQuickstart reads
readsQuickstart(e) ==
  (IF e.CLIENT_ID = "" THEN {"id"} ELSE {}) \cup (IF e.CLIENT_SECRET = "" THEN {"secret"} ELSE {})

\* mutant: the environment first, as in the quickstart
loadConfig_EnvironmentFirst(prev, e, fs) == loadConfigQuickstart(prev, e, fs)
\* mutant: the secret file is never read
loadConfig_SecretFromEnvironment(prev, e, fs) ==
  LET id == readFileContent(fs.id)
  IN  [TokenURL |-> e.TOKEN_URL,
       TargetAudience |-> e.TARGET_AUDIENCE,
       TargetScopes |-> e.TARGET_SCOPES,
       ClientID |-> IF ~id.err /\ id.content # "" THEN id.content
                    ELSE IF e.CLIENT_ID # "" THEN e.CLIENT_ID
                    ELSE prev.ClientID,
       ClientSecret |-> IF e.CLIENT_SECRET # "" THEN e.CLIENT_SECRET ELSE prev.ClientSecret]
\* loadConfig of go-processor/main.go: the file first, the environment when the
\* file is missing or empty; a credential that neither gives keeps its value
loadConfig(prev, e, fs) ==
  LET id == readFileContent(fs.id)
      secret == readFileContent(fs.secret)
  IN  [TokenURL |-> e.TOKEN_URL,
       TargetAudience |-> e.TARGET_AUDIENCE,
       TargetScopes |-> e.TARGET_SCOPES,
       ClientID |-> IF ~id.err /\ id.content # "" THEN id.content
                    ELSE IF e.CLIENT_ID # "" THEN e.CLIENT_ID
                    ELSE prev.ClientID,
       ClientSecret |-> IF ~secret.err /\ secret.content # "" THEN secret.content
                        ELSE IF e.CLIENT_SECRET # "" THEN e.CLIENT_SECRET
                        ELSE prev.ClientSecret]

\* waitForCredentials(60 * time.Second), sleeping 2 * time.Second; in seconds
MaxWait == 60
PollInterval == 2
\* mutant: the loop never runs
Before_NoWait(now, deadline) == FALSE
\* mutant: the loop has no deadline
Before_NoDeadline(now, deadline) == TRUE
\* time.Now().Before(deadline)
Before(now, deadline) == now < deadline
\* the test inside the loop of waitForCredentials
CredentialsReady(fs) ==
  LET id == readFileContent(fs.id)
      secret == readFileContent(fs.secret)
  IN  ~id.err /\ ~secret.err /\ id.content # "" /\ secret.content # ""

\* ------------------------------------------------ the lock of the Config
\* sync.RWMutex: who holds it
Unlocked == [writer |-> FALSE, readers |-> 0]
\* mutant: Lock does not wait for the readers
CanLock_IgnoresReaders(m) == ~m.writer
\* mu.Lock() returns when no one holds the lock
CanLock(m) == ~m.writer /\ m.readers = 0
\* mu.RLock() returns when no writer holds the lock
CanRLock(m) == ~m.writer
\* the order in which loadConfig assigns the fields
LoadOrder == <<"TokenURL", "TargetAudience", "TargetScopes", "ClientID", "ClientSecret">>
\* the order in which the return of getConfig reads them
ReadOrder == <<"ClientID", "ClientSecret", "TokenURL", "TargetAudience", "TargetScopes">>
\* the five results of getConfig before any field is read
NoTuple ==
  [ClientID |-> "?", ClientSecret |-> "?", TokenURL |-> "?", TargetAudience |-> "?",
   TargetScopes |-> "?"]
\* a configuration left by an earlier load
OldConfig ==
  [ClientID |-> "old-client", ClientSecret |-> "old-secret", TokenURL |-> "http://old/token",
   TargetAudience |-> "old-target", TargetScopes |-> "openid"]
BothFiles ==
  [id |-> [exists |-> TRUE, data |-> <<"file-client", "\n">>],
   secret |-> [exists |-> TRUE, data |-> <<"file-secret", "\n">>]]

\* -------------------------------------- demo-app: the validator, pure code
StatusUnauthorized == 401

\* the environment of the demo-app
ValidatorEnvironments ==
  [JWKS_URL : {"", "http://keycloak/certs"}, ISSUER : {"", "http://keycloak/realms/demo"},
   AUDIENCE : {"", "auth-target", "agent-1", "something-else"}]
NoValidatorEnvironment == [JWKS_URL |-> "", ISSUER |-> "", AUDIENCE |-> ""]

\* a token string, by what jwt.Parse with the key set and WithValidate makes of
\* it, and the claims it carries
Tokens ==
  [parse : {"ok", "malformed", "bad signature", "expired"},
   iss : {"http://keycloak/realms/demo", "http://other/realms/demo"},
   aud : {<<>>, <<"auth-target">>, <<"agent-1">>, <<"agent-1", "auth-target">>}]
AToken == [parse |-> "ok", iss |-> "http://keycloak/realms/demo", aud |-> <<"auth-target">>]
\* the Authorization header of a request: absent, or a scheme and a token
AuthorizationValues ==
  {<<>>, <<"Bearer ">>, <<"Basic ", AToken>>, <<"bearer ", AToken>>}
    \cup {<<"Bearer ", t>> : t \in Tokens}
NoRequest == [authorization |-> <<>>, jwks |-> "none"]
Requests == [authorization : AuthorizationValues, jwks : {"ok", "failed"}]
\* an answer: what is written to the caller, the error that is logged, and the
\* number of calls of validateJWT made for the request
NoAnswer == [status |-> 0, body |-> "", err |-> "", calls |-> 0]

\* main of the demo-app up to ListenAndServe: what it does with the environment
validatorMain(e) ==
  IF e.JWKS_URL = "" THEN "JWKS_URL environment variable is required"
  ELSE IF e.ISSUER = "" THEN "ISSUER environment variable is required"
  ELSE IF e.AUDIENCE = "" THEN "AUDIENCE environment variable is required"
  ELSE "serving"

\* mutant: only the first audience of the token is compared
validAudience_FirstOnly(audiences, expectedAudience) ==
  Len(audiences) > 0 /\ audiences[1] = expectedAudience
\* the loop over token.Audience()
validAudience(audiences, expectedAudience) ==
  \E i \in 1..Len(audiences) : audiences[i] = expectedAudience

\* mutant: the issuer is not compared
validateJWT_IssuerUnchecked(tokenString, jwks, expectedIssuer, expectedAudience) ==
  IF jwks # "ok" THEN "failed to fetch JWKS"
  ELSE IF tokenString = <<>> \/ tokenString[1].parse # "ok" THEN "failed to parse/validate token"
  ELSE IF ~validAudience(tokenString[1].aud, expectedAudience) THEN "invalid audience"
  ELSE "nil"
\* validateJWT: the error it returns, "nil" for none
validateJWT(tokenString, jwks, expectedIssuer, expectedAudience) ==
  IF jwks # "ok" THEN "failed to fetch JWKS"
  ELSE IF tokenString = <<>> \/ tokenString[1].parse # "ok" THEN "failed to parse/validate token"
  ELSE IF tokenString[1].iss # expectedIssuer THEN "invalid issuer"
  ELSE IF ~validAudience(tokenString[1].aud, expectedAudience) THEN "invalid audience"
  ELSE "nil"

\* mutant: the token is validated before the header is looked at
authHandler_ValidateFirst(r, issuer, audience) ==
  LET authHeader == r.authorization
      tokenString == TrimPrefix(authHeader, "Bearer ")
      err == validateJWT(tokenString, r.jwks, issuer, audience)
  IN  IF err # "nil" \/ authHeader = <<>> \/ tokenString = authHeader
      THEN [status |-> StatusUnauthorized, body |-> "unauthorized", err |-> err, calls |-> 1]
      ELSE [status |-> StatusOK, body |-> "authorized", err |-> "nil", calls |-> 1]
\* mutant: the caller is told why the token was refused
authHandler_ReasonInBody(r, issuer, audience) ==
  LET authHeader == r.authorization
      tokenString == TrimPrefix(authHeader, "Bearer ")
      err == validateJWT(tokenString, r.jwks, issuer, audience)
  IN  IF authHeader = <<>>
      THEN [status |-> StatusUnauthorized, body |-> "unauthorized: missing Authorization header",
            err |-> "", calls |-> 0]
      ELSE IF tokenString = authHeader
      THEN [status |-> StatusUnauthorized,
            body |-> "unauthorized: invalid Authorization header format", err |-> "",
            calls |-> 0]
      ELSE IF err # "nil"
      THEN [status |-> StatusUnauthorized, body |-> err, err |-> err, calls |-> 1]
      ELSE [status |-> StatusOK, body |-> "authorized", err |-> "nil", calls |-> 1]
\* authHandler: the status and the body it writes
authHandler(r, issuer, audience) ==
  LET authHeader == r.authorization
      tokenString == TrimPrefix(authHeader, "Bearer ")
      err == validateJWT(tokenString, r.jwks, issuer, audience)
  IN  IF authHeader = <<>>
      THEN [status |-> StatusUnauthorized, body |-> "unauthorized: missing Authorization header",
            err |-> "", calls |-> 0]
      ELSE IF tokenString = authHeader
      THEN [status |-> StatusUnauthorized,
            body |-> "unauthorized: invalid Authorization header format", err |-> "",
            calls |-> 0]
      ELSE IF err # "nil"
      THEN [status |-> StatusUnauthorized, body |-> "unauthorized", err |-> err, calls |-> 1]
      ELSE [status |-> StatusOK, body |-> "authorized", err |-> "nil", calls |-> 1]

\* the request answered before the last one, with its answer
NoExchange == [req |-> NoRequest, resp |-> NoAnswer]

\* ------------------------------------------- pure code: kagenti-webhook
\* names of the injector package
SpiffeHelperContainerName == "spiffe-helper"
ClientRegistrationContainerName == "kagenti-client-registration"
EnvoyProxyContainerName == "envoy-proxy"
ProxyInitContainerName == "proxy-init"
DefaultNamespaceLabel == "kagenti-enabled"
DefaultNamespaceAnnotation == "kagenti.dev/inject"
DefaultCRAnnotation == "kagenti.dev/inject"
AuthBridgeInjectLabel == "kagenti.io/inject"
AuthBridgeInjectValue == "enabled"
SpireEnableLabel == "kagenti.io/spire"
SpireEnabledValue == "enabled"

\* a Go map[string]string is a function on the keys it holds; indexing a key
\* it does not hold gives ""
Maps(keys, values) == UNION {[d -> values] : d \in SUBSET keys}
Lookup(m, k) == IF k \in DOMAIN m THEN m[k] ELSE ""
Exists(m, k) == k \in DOMAIN m

\* the labels and annotations a request can carry
WorkloadLabels == Maps({AuthBridgeInjectLabel, SpireEnableLabel}, {"enabled", "disabled", "true"})
CRAnnotations == Maps({DefaultCRAnnotation}, {"true", "false", "enabled"})
\* what k8sClient.Get finds for the namespace of the request
NamespaceNotFound == [found |-> FALSE, Labels |-> <<>>, Annotations |-> <<>>]
Namespaces ==
  {NamespaceNotFound} \cup
  [found : {TRUE},
   Labels : Maps({DefaultNamespaceLabel}, {"true", "false"}),
   Annotations : Maps({DefaultNamespaceAnnotation}, {"true", "false"})]

\* containers and volumes: the name, and of a container the SPIRE_ENABLED
\* variable ("" when it has none) and the volumes it mounts
Container(name, spire, mounts) == [Name |-> name, SPIRE_ENABLED |-> spire, VolumeMounts |-> mounts]
Volume(name, source) == [Name |-> name, VolumeSource |-> source]
BuildSpiffeHelperContainer ==
  Container(SpiffeHelperContainerName, "",
            <<"spiffe-helper-config", "spire-agent-socket", "svid-output", "shared-data">>)
\* mutant: client-registration mounts svid-output also without SPIRE
BuildClientRegistrationContainerWithSpireOption_AlwaysSvid(spireEnabled) ==
  Container(ClientRegistrationContainerName, IF spireEnabled THEN "true" ELSE "false",
            <<"svid-output", "shared-data">>)
BuildClientRegistrationContainerWithSpireOption(spireEnabled) ==
  IF spireEnabled
  THEN Container(ClientRegistrationContainerName, "true", <<"svid-output", "shared-data">>)
  ELSE Container(ClientRegistrationContainerName, "false", <<"shared-data">>)
BuildEnvoyProxyContainer == Container(EnvoyProxyContainerName, "", <<"envoy-config", "shared-data">>)
BuildProxyInitContainer == Container(ProxyInitContainerName, "", <<>>)
BuildRequiredVolumes ==
  << Volume("shared-data", "EmptyDir"), Volume("spire-agent-socket", "CSI"),
     Volume("spiffe-helper-config", "ConfigMap"), Volume("svid-output", "EmptyDir"),
     Volume("envoy-config", "ConfigMap") >>
BuildRequiredVolumesNoSpire ==
  << Volume("shared-data", "EmptyDir"), Volume("envoy-config", "ConfigMap") >>

\* the pod specs that come in: the empty one that Default makes for an
\* MCPServer, a workload with one container, and a workload that has its own
\* envoy-proxy container and shared-data volume
UserContainer == Container("app", "", <<>>)
PodSpecs ==
  { [Containers |-> <<>>, InitContainers |-> <<>>, Volumes |-> <<>>],
    [Containers |-> <<UserContainer>>, InitContainers |-> <<>>, Volumes |-> <<>>],
    [Containers |-> <<UserContainer, Container(EnvoyProxyContainerName, "", <<"shared-data">>)>>,
     InitContainers |-> <<>>,
     Volumes |-> <<Volume("shared-data", "PersistentVolumeClaim")>>] }
Kinds == {"Deployment", "MCPServer"}
SupportedKinds == {"Deployment", "StatefulSet", "DaemonSet", "Job", "CronJob"}

\* CheckNamespaceInjectionEnabled: (enabled, err)
CheckNamespaceInjectionEnabled(ns, labelKey, annotationKey) ==
  IF ~ns.found THEN [ok |-> FALSE, err |-> TRUE]
  ELSE IF Lookup(ns.Labels, labelKey) = "true" THEN [ok |-> TRUE, err |-> FALSE]
  ELSE IF Lookup(ns.Annotations, annotationKey) = "true" THEN [ok |-> TRUE, err |-> FALSE]
  ELSE [ok |-> FALSE, err |-> FALSE]

\* IsNamespaceInjectionEnabled: (enabled, err)
IsNamespaceInjectionEnabled(ns, labelKey) ==
  IF ~ns.found THEN [ok |-> FALSE, err |-> TRUE]
  ELSE IF Lookup(ns.Labels, labelKey) = "true" THEN [ok |-> TRUE, err |-> FALSE]
  ELSE [ok |-> FALSE, err |-> FALSE]

\* mutant: the namespace is asked before the annotation of the resource
ShouldMutate_NamespaceFirst(ns, crAnnotations) ==
  LET n == CheckNamespaceInjectionEnabled(ns, DefaultNamespaceLabel, DefaultNamespaceAnnotation)
  IN  IF n.ok THEN [ok |-> TRUE, err |-> FALSE, gets |-> 1]
      ELSE IF Lookup(crAnnotations, DefaultCRAnnotation) = "false" THEN [ok |-> FALSE, err |-> FALSE, gets |-> 1]
      ELSE IF Lookup(crAnnotations, DefaultCRAnnotation) = "true" THEN [ok |-> TRUE, err |-> FALSE, gets |-> 1]
      ELSE [ok |-> FALSE, err |-> n.err, gets |-> 1]
\* PodMutator.ShouldMutate: (shouldMutate, err), and how often the namespace
\* was fetched
ShouldMutate(ns, crAnnotations) ==
  IF Lookup(crAnnotations, DefaultCRAnnotation) = "false" THEN [ok |-> FALSE, err |-> FALSE, gets |-> 0]
  ELSE IF Lookup(crAnnotations, DefaultCRAnnotation) = "true" THEN [ok |-> TRUE, err |-> FALSE, gets |-> 0]
  ELSE LET n == CheckNamespaceInjectionEnabled(ns, DefaultNamespaceLabel, DefaultNamespaceAnnotation)
       IN  [ok |-> n.ok, err |-> n.err, gets |-> 1]

\* mutant: a label other than `enabled` leaves the decision to the namespace
NeedsMutation_NamespaceDecides(ns, labels) ==
  IF Exists(labels, AuthBridgeInjectLabel) /\ labels[AuthBridgeInjectLabel] = AuthBridgeInjectValue
  THEN [ok |-> TRUE, err |-> FALSE, gets |-> 0]
  ELSE LET n == IsNamespaceInjectionEnabled(ns, DefaultNamespaceLabel)
       IN  [ok |-> n.ok, err |-> n.err, gets |-> 1]
\* PodMutator.NeedsMutation
NeedsMutation(ns, labels) ==
  IF Exists(labels, AuthBridgeInjectLabel)
  THEN IF labels[AuthBridgeInjectLabel] = AuthBridgeInjectValue
       THEN [ok |-> TRUE, err |-> FALSE, gets |-> 0]
       ELSE [ok |-> FALSE, err |-> FALSE, gets |-> 0]
  ELSE LET n == IsNamespaceInjectionEnabled(ns, DefaultNamespaceLabel)
       IN  [ok |-> n.ok, err |-> n.err, gets |-> 1]

\* mutant: SPIRE is on unless the label says otherwise
IsSpireEnabled_DefaultOn(labels) ==
  IF ~Exists(labels, SpireEnableLabel) THEN TRUE
  ELSE labels[SpireEnableLabel] = SpireEnabledValue
IsSpireEnabled(labels) ==
  IF ~Exists(labels, SpireEnableLabel) THEN FALSE
  ELSE labels[SpireEnableLabel] = SpireEnabledValue

\* mutant: a container is never found
containerExists_Never(containers, name) == FALSE
containerExists(containers, name) == \E i \in 1..Len(containers) : containers[i].Name = name
volumeExists(volumes, name) == \E i \in 1..Len(volumes) : volumes[i].Name = name

InjectSidecarsWithSpireOption(podSpec, spireEnabled) ==
  LET c0 == podSpec.Containers
      c1 == IF spireEnabled /\ ~containerExists(c0, SpiffeHelperContainerName)
            THEN Append(c0, BuildSpiffeHelperContainer) ELSE c0
      c2 == IF ~containerExists(c1, ClientRegistrationContainerName)
            THEN Append(c1, BuildClientRegistrationContainerWithSpireOption(spireEnabled)) ELSE c1
      c3 == IF ~containerExists(c2, EnvoyProxyContainerName)
            THEN Append(c2, BuildEnvoyProxyContainer) ELSE c2
  IN  [podSpec EXCEPT !.Containers = c3]
InjectSidecars(podSpec) == InjectSidecarsWithSpireOption(podSpec, TRUE)

InjectInitContainers(podSpec) ==
  IF ~containerExists(podSpec.InitContainers, ProxyInitContainerName)
  THEN [podSpec EXCEPT !.InitContainers = Append(@, BuildProxyInitContainer)]
  ELSE podSpec

\* mutant: a required volume takes the place of an existing one of its name
RECURSIVE AppendMissing_Replacing(_, _)
AppendMissing_Replacing(volumes, required) ==
  IF required = <<>> THEN volumes
  ELSE AppendMissing_Replacing(
         IF volumeExists(volumes, Head(required).Name)
         THEN [i \in 1..Len(volumes) |->
                 IF volumes[i].Name = Head(required).Name THEN Head(required) ELSE volumes[i]]
         ELSE Append(volumes, Head(required)),
         Tail(required))
\* the loop of InjectVolumesWithSpireOption over the required volumes
RECURSIVE AppendMissing(_, _)
AppendMissing(volumes, required) ==
  IF required = <<>> THEN volumes
  ELSE AppendMissing(IF volumeExists(volumes, Head(required).Name) THEN volumes
                     ELSE Append(volumes, Head(required)),
                     Tail(required))
InjectVolumesWithSpireOption(podSpec, spireEnabled) ==
  [podSpec EXCEPT !.Volumes =
     AppendMissing(@, IF spireEnabled THEN BuildRequiredVolumes ELSE BuildRequiredVolumesNoSpire)]
InjectVolumes(podSpec) == InjectVolumesWithSpireOption(podSpec, TRUE)

\* PodMutator.MutatePodSpec: the pod spec it leaves, and whether it returns an error
MutatePodSpec(podSpec, ns, crAnnotations) ==
  LET d == ShouldMutate(ns, crAnnotations)
  IN  IF d.err THEN [podSpec |-> podSpec, mutated |-> FALSE, err |-> TRUE, gets |-> d.gets]
      ELSE IF ~d.ok THEN [podSpec |-> podSpec, mutated |-> FALSE, err |-> FALSE, gets |-> d.gets]
      ELSE [podSpec |-> InjectVolumes(InjectSidecars(podSpec)),
            mutated |-> TRUE, err |-> FALSE, gets |-> d.gets]

\* mutant: the init container is injected before the decision is known
InjectAuthBridge_InitFirst(podSpec, ns, labels) ==
  LET d == NeedsMutation(ns, labels)
      spireEnabled == IsSpireEnabled(labels)
      p == InjectInitContainers(podSpec)
  IN  IF d.err THEN [podSpec |-> p, mutated |-> FALSE, err |-> TRUE, gets |-> d.gets]
      ELSE IF ~d.ok THEN [podSpec |-> podSpec, mutated |-> FALSE, err |-> FALSE, gets |-> d.gets]
      ELSE [podSpec |-> InjectVolumesWithSpireOption(
                          InjectSidecarsWithSpireOption(p, spireEnabled), spireEnabled),
            mutated |-> TRUE, err |-> FALSE, gets |-> d.gets]
\* PodMutator.InjectAuthBridge: the pod spec it leaves and (mutated, err)
InjectAuthBridge(podSpec, ns, labels) ==
  LET d == NeedsMutation(ns, labels)
      spireEnabled == IsSpireEnabled(labels)
  IN  IF d.err THEN [podSpec |-> podSpec, mutated |-> FALSE, err |-> TRUE, gets |-> d.gets]
      ELSE IF ~d.ok THEN [podSpec |-> podSpec, mutated |-> FALSE, err |-> FALSE, gets |-> d.gets]
      ELSE [podSpec |-> InjectVolumesWithSpireOption(
                          InjectSidecarsWithSpireOption(InjectInitContainers(podSpec), spireEnabled),
                          spireEnabled),
            mutated |-> TRUE, err |-> FALSE, gets |-> d.gets]

\* the object and the answer before any request
EmptyPodSpec == [Containers |-> <<>>, InitContainers |-> <<>>, Volumes |-> <<>>]
NoObject == [Kind |-> "", Labels |-> <<>>, Annotations |-> <<>>, Spec |-> EmptyPodSpec]
NoAdmission == [op |-> "none", before |-> EmptyPodSpec, response |-> "", mutated |-> FALSE, gets |-> 0]

isAlreadyInjected(podSpec) ==
  \/ \E i \in 1..Len(podSpec.Containers) :
       podSpec.Containers[i].Name \in {SpiffeHelperContainerName, ClientRegistrationContainerName}
  \/ \E i \in 1..Len(podSpec.InitContainers) : podSpec.InitContainers[i].Name = "proxy-init"

\* AuthBridgeWebhook.Handle for an object that decodes: the pod spec of the
\* patched object and the admission response
AuthBridgeWebhookHandle(kind, podSpec, ns, labels) ==
  IF kind \notin SupportedKinds
  THEN [podSpec |-> podSpec, response |-> "unsupported kind", gets |-> 0]
  ELSE IF isAlreadyInjected(podSpec)
  THEN [podSpec |-> podSpec, response |-> "already injected", gets |-> 0]
  ELSE LET r == InjectAuthBridge(podSpec, ns, labels)
       IN  IF r.err THEN [podSpec |-> podSpec, response |-> "errored", gets |-> r.gets]
           ELSE IF ~r.mutated
           THEN [podSpec |-> podSpec, response |-> "injection not enabled", gets |-> r.gets]
           ELSE [podSpec |-> r.podSpec, response |-> "patched", gets |-> r.gets]
\* ---------------------------------------------------------------- state
VARIABLES
  globalConfig,  \* the shared configuration, as loadConfig left it
  crashed,       \* the process died of a panic in a handler goroutine
  pc,            \* per stream: "recv", "exchange", "send", "returned", "panic"
  ret,           \* per stream: why Process returned
  cur,           \* per stream: the event being handled
  form,          \* per stream: the form posted for the event
  posts,         \* per stream: POSTs issued for the event
  reply,         \* per stream: what the token endpoint did
  result,        \* per stream: (newToken, err) of exchangeToken
  resp,          \* per stream: the response built for the event
  outstanding,   \* per stream: events received and not yet answered
  canceled,      \* per stream: the context of the stream is done
  sentCanceled,  \* per stream: stream.Send was called after the context was done
  variant,       \* which main runs: "go-processor" or "quickstart"
  phase,         \* main: "wait", "load", "listen", "serving", "failed to listen"
  env,           \* the environment of the process
  files,         \* the credential files, as they are now
  seen,          \* the credential files, as they were when loadConfig ran
  reads,         \* the credential files loadConfig read
  clock,         \* seconds spent in waitForCredentials
  polls,         \* iterations of the loop of waitForCredentials
  waitResult,    \* what waitForCredentials returned: "none", "true", "false"
  readiness,     \* whether both files have been non-empty since some moment of the
                 \* wait: "no", "in time" (a poll was still to come), "last sleep"
  mu,            \* globalConfig.mu: the writer and the readers holding it
  lpc,           \* a loadConfig running beside the handlers: where it is
  before,        \* the configuration before that loadConfig
  rpc,           \* per reader: where its getConfig is
  rbuf,          \* per reader: the fields its getConfig has read
  venv,          \* demo-app: its environment
  vphase,        \* demo-app: "off", "start", "serving" or why main exited
  vreq,          \* demo-app: the request handled last
  vresp,         \* demo-app: the answer to it
  vlast,         \* demo-app: the request answered before it, with its answer
  object,        \* webhook: the workload or MCPServer as the API server holds it
  namespace,     \* webhook: the Namespace object that k8sClient.Get returns
  admitted,      \* webhook: admission requests answered so far
  last           \* webhook: the last request: pod spec before it, and the answer

streamVars ==
  <<crashed, pc, ret, cur, form, posts, reply, result, resp, outstanding, canceled, sentCanceled>>
startVars == <<variant, phase, env, files, seen, reads, clock, polls, waitResult, readiness>>
lockVars == <<mu, lpc, before, rpc, rbuf>>
valVars == <<venv, vphase, vreq, vresp, vlast>>
hookVars == <<object, namespace, admitted, last>>
vars == <<globalConfig, streamVars, startVars, lockVars, valVars, hookVars>>

getConfig == globalConfig

\* no stream has received anything
StreamsIdle ==
  /\ crashed = FALSE
  /\ pc = [s \in Streams |-> "recv"]
  /\ ret = [s \in Streams |-> "none"]
  /\ cur = [s \in Streams |-> NoEvent]
  /\ form = [s \in Streams |-> NoForm]
  /\ posts = [s \in Streams |-> 0]
  /\ reply = [s \in Streams |-> NoReply]
  /\ result = [s \in Streams |-> NoResult]
  /\ resp = [s \in Streams |-> EmptyResponse]
  /\ outstanding = [s \in Streams |-> 0]
  /\ canceled = [s \in Streams |-> FALSE]
  /\ sentCanceled = [s \in Streams |-> FALSE]

\* the server is up; how the configuration came about is left open
Serving ==
  /\ variant = "go-processor"
  /\ phase = "serving"
  /\ env = EmptyEnvironment
  /\ files = NoFiles
  /\ seen = NoFiles
  /\ reads = {}
  /\ clock = 0
  /\ polls = 0
  /\ waitResult = "none"
  /\ readiness = "no"

\* no loadConfig runs beside the handlers
NoLoad ==
  /\ mu = Unlocked
  /\ lpc = [at |-> "idle", written |-> 0]
  /\ before = ZeroConfig
  /\ rpc = [r \in Readers |-> [at |-> "idle", read |-> 0]]
  /\ rbuf = [r \in Readers |-> NoTuple]

\* the demo-app is not part of the run
NoValidator ==
  /\ venv = NoValidatorEnvironment
  /\ vphase = "off"
  /\ vreq = NoRequest
  /\ vresp = NoAnswer
  /\ vlast = NoExchange

\* the webhook is not part of the run
NoWebhook ==
  /\ object = NoObject
  /\ namespace = NamespaceNotFound
  /\ admitted = 0
  /\ last = NoAdmission

Init ==
  /\ globalConfig \in Config
  /\ StreamsIdle
  /\ Serving
  /\ NoLoad
  /\ NoValidator
  /\ NoWebhook

\* stream.Recv returns an event of E; the switch runs up to its first blocking
\* call
RecvOn(s, E) ==
  /\ phase = "serving"
  /\ ~crashed
  /\ pc[s] = "recv"
  /\ ~canceled[s]
  /\ \E e \in E :
       LET d == Dispatch(getConfig, e)
       IN  /\ cur' = [cur EXCEPT ![s] = e]
           /\ pc' = [pc EXCEPT ![s] = d.pc]
           /\ resp' = [resp EXCEPT ![s] = d.resp]
           /\ form' = [form EXCEPT ![s] = d.form]
           /\ posts' = [posts EXCEPT ![s] = IF d.pc = "exchange" THEN 1 ELSE 0]
           /\ crashed' = (d.pc = "panic")
  /\ reply' = [reply EXCEPT ![s] = NoReply]
  /\ result' = [result EXCEPT ![s] = NoResult]
  /\ outstanding' = [outstanding EXCEPT ![s] = @ + 1]
  /\ UNCHANGED <<globalConfig, ret, canceled, sentCanceled, startVars, lockVars, valVars, hookVars>>

Recv(s) == RecvOn(s, Events)

\* http.PostForm and the rest of exchangeToken, then the branch on err
ExchangeReplyOn(s, R) ==
  /\ phase = "serving"
  /\ ~crashed
  /\ pc[s] = "exchange"
  /\ \E r \in R :
       LET res == exchangeToken(r)
           a == AfterExchange(res)
       IN  /\ reply' = [reply EXCEPT ![s] = r]
           /\ result' = [result EXCEPT ![s] = res]
           /\ pc' = [pc EXCEPT ![s] = a.pc]
           /\ resp' = [resp EXCEPT ![s] = a.resp]
           /\ posts' = [posts EXCEPT ![s] = IF a.pc = "exchange" THEN @ + 1 ELSE @]
  /\ UNCHANGED <<globalConfig, crashed, ret, cur, form, outstanding, canceled, sentCanceled,
                 startVars, lockVars, valVars, hookVars>>

ExchangeReply(s) == ExchangeReplyOn(s, Replies)

\* stream.Send succeeds; the loop starts over
SendOk(s) ==
  /\ phase = "serving"
  /\ ~crashed
  /\ pc[s] = "send"
  /\ ~canceled[s]
  /\ pc' = [pc EXCEPT ![s] = "recv"]
  /\ outstanding' = [outstanding EXCEPT ![s] = @ - 1]
  /\ cur' = [cur EXCEPT ![s] = NoEvent]
  /\ form' = [form EXCEPT ![s] = NoForm]
  /\ posts' = [posts EXCEPT ![s] = 0]
  /\ reply' = [reply EXCEPT ![s] = NoReply]
  /\ result' = [result EXCEPT ![s] = NoResult]
  /\ resp' = [resp EXCEPT ![s] = EmptyResponse]
  /\ UNCHANGED <<globalConfig, crashed, ret, canceled, sentCanceled, startVars, lockVars, valVars, hookVars>>

\* Process returns err: the goroutine of the stream ends, its locals are gone
Return(s, err) ==
  /\ pc' = [pc EXCEPT ![s] = "returned"]
  /\ ret' = [ret EXCEPT ![s] = err]
  /\ cur' = [cur EXCEPT ![s] = NoEvent]
  /\ form' = [form EXCEPT ![s] = NoForm]
  /\ posts' = [posts EXCEPT ![s] = 0]
  /\ reply' = [reply EXCEPT ![s] = NoReply]
  /\ result' = [result EXCEPT ![s] = NoResult]
  /\ resp' = [resp EXCEPT ![s] = EmptyResponse]
  /\ UNCHANGED <<globalConfig, crashed, outstanding, startVars, lockVars, valVars, hookVars>>

\* stream.Send is called and fails (it does when the context is done);
\* Process returns
SendErr(s) ==
  /\ phase = "serving"
  /\ ~crashed
  /\ pc[s] = "send"
  /\ sentCanceled' = [sentCanceled EXCEPT ![s] = @ \/ canceled[s]]
  /\ Return(s, "cannot send stream response")
  /\ UNCHANGED canceled

\* stream.Recv fails (it does when the context is done); Process returns
RecvErr(s) ==
  /\ phase = "serving"
  /\ ~crashed
  /\ pc[s] = "recv"
  /\ Return(s, "cannot receive stream request")
  /\ UNCHANGED <<canceled, sentCanceled>>

\* the context is done when the loop is at its top: the select finds it
CtxDone(s) ==
  /\ phase = "serving"
  /\ ~crashed
  /\ pc[s] = "recv"
  /\ canceled' = [canceled EXCEPT ![s] = TRUE]
  /\ Return(s, "ctx.Err")
  /\ UNCHANGED sentCanceled

Next ==
  \E s \in Streams :
    \/ Recv(s)
    \/ ExchangeReply(s)
    \/ SendOk(s)
    \/ SendErr(s)
    \/ RecvErr(s)
    \/ CtxDone(s)

Spec == Init /\ [][Next]_vars

\* ------------------------------------- one stream, more inputs, cancellation
\* a single Authorization header; its value may repeat the prefix
WideValues ==
  HeaderValues \cup
    {<<"Bearer ", "bearer ", "T1">>, <<"bearer ", "Bearer ", "T1">>, <<"Bearer ", "Bearer ", "T1">>}
WideEvents ==
  {[kind |-> "request_headers",
    headers |-> [nil |-> FALSE, headers |-> << [key |-> "authorization", value |-> v] >>]] :
     v \in WideValues}
    \cup {[kind |-> "response_headers", headers |-> [nil |-> FALSE, headers |-> <<>>]]}
TheStream == 1

RecvWide(s) == RecvOn(s, WideEvents)

\* the peer goes away or Envoy times the stream out while Process is blocked
\* in stream.Recv or in the POST of exchangeToken
Cancel(s) ==
  /\ phase = "serving"
  /\ ~crashed
  /\ pc[s] \in {"recv", "exchange"}
  /\ ~canceled[s]
  /\ canceled' = [canceled EXCEPT ![s] = TRUE]
  /\ UNCHANGED <<globalConfig, crashed, pc, ret, cur, form, posts, reply, result, resp,
                 outstanding, sentCanceled, startVars, lockVars, valVars, hookVars>>

NextStream ==
  \/ RecvWide(TheStream)
  \/ ExchangeReply(TheStream)
  \/ SendOk(TheStream)
  \/ SendErr(TheStream)
  \/ RecvErr(TheStream)
  \/ CtxDone(TheStream)
  \/ Cancel(TheStream)

SpecStream == Init /\ [][NextStream]_vars

\* ----------------------------------------------------- main, then serving
Variants == {"go-processor", "quickstart"}

\* main of go-processor waits for the files first; the quickstart's main loads
\* at once
InitMain ==
  /\ globalConfig = ZeroConfig
  /\ StreamsIdle
  /\ variant \in Variants
  /\ phase = IF variant = "go-processor" THEN "wait" ELSE "load"
  /\ env \in Environments
  /\ files \in Files
  /\ seen = NoFiles
  /\ reads = {}
  /\ clock = 0
  /\ polls = 0
  /\ waitResult = "none"
  /\ readiness = IF variant = "go-processor" /\ CredentialsReady(files) THEN "in time" ELSE "no"
  /\ NoLoad
  /\ NoValidator
  /\ NoWebhook

\* one iteration of the loop of waitForCredentials: both files are read; with
\* both non-empty the function returns true, else it sleeps
Poll ==
  /\ phase = "wait"
  /\ Before(clock, MaxWait)
  /\ polls' = polls + 1
  /\ IF CredentialsReady(files)
     THEN phase' = "load" /\ waitResult' = "true" /\ UNCHANGED clock
     ELSE clock' = clock + PollInterval /\ UNCHANGED <<phase, waitResult>>
  /\ UNCHANGED <<globalConfig, streamVars, lockVars, valVars, hookVars, variant, readiness, env, files, seen, reads>>

\* the deadline has passed: waitForCredentials returns false
Timeout ==
  /\ phase = "wait"
  /\ ~Before(clock, MaxWait)
  /\ phase' = "load"
  /\ waitResult' = "false"
  /\ UNCHANGED <<globalConfig, streamVars, lockVars, valVars, hookVars, variant, readiness, env, files, seen, reads, clock, polls>>

\* mutant: loadConfig also runs again while the server serves
LoadConfig_Again ==
  /\ phase \in {"load", "serving"}
  /\ globalConfig' = IF variant = "go-processor" THEN loadConfig(globalConfig, env, files)
                     ELSE loadConfigQuickstart(globalConfig, env, files)
  /\ seen' = files
  /\ reads' = IF variant = "go-processor" THEN {"id", "secret"} ELSE readsQuickstart(env)
  /\ phase' = IF phase = "load" THEN "listen" ELSE phase
  /\ UNCHANGED <<streamVars, lockVars, valVars, hookVars, variant, readiness, env, files, clock, polls, waitResult>>
\* main calls loadConfig
LoadConfig ==
  /\ phase = "load"
  /\ globalConfig' = IF variant = "go-processor" THEN loadConfig(globalConfig, env, files)
                     ELSE loadConfigQuickstart(globalConfig, env, files)
  /\ seen' = files
  /\ reads' = IF variant = "go-processor" THEN {"id", "secret"} ELSE readsQuickstart(env)
  /\ phase' = "listen"
  /\ UNCHANGED <<streamVars, lockVars, valVars, hookVars, variant, readiness, env, files, clock, polls, waitResult>>

\* net.Listen succeeds and the gRPC server serves
Listen ==
  /\ phase = "listen"
  /\ phase' = "serving"
  /\ UNCHANGED <<globalConfig, streamVars, lockVars, valVars, hookVars, variant, readiness, env, files, seen, reads, clock, polls,
                 waitResult>>

\* net.Listen fails: log.Fatalf
ListenFails ==
  /\ phase = "listen"
  /\ phase' = "failed to listen"
  /\ UNCHANGED <<globalConfig, streamVars, lockVars, valVars, hookVars, variant, readiness, env, files, seen, reads, clock, polls,
                 waitResult>>

\* when the files turn non-empty: is waitForCredentials still to poll them
StillToPoll(ph, now) ==
  IF ph # "wait" THEN "no"
  ELSE IF Before(now, MaxWait) THEN "in time"
  ELSE "last sleep"

\* client-registration (or anyone) writes or removes a credential file
WriteFile ==
  /\ phase \in {"wait", "load", "listen", "serving"}
  /\ \E f \in Files :
       /\ f # files
       /\ f.id = files.id \/ f.secret = files.secret
       /\ files' = f
       /\ readiness' = IF ~CredentialsReady(f) THEN "no"
                       ELSE IF readiness # "no" THEN readiness
                       ELSE StillToPoll(phase, clock)
  /\ UNCHANGED <<globalConfig, streamVars, lockVars, valVars, hookVars, variant, phase, env, seen, reads, clock, polls,
                 waitResult>>

\* the events the server is given once main has brought it up
MainEvents ==
  {[kind |-> "request_headers", headers |-> [nil |-> FALSE, headers |-> h]] :
     h \in {<<>>, << [key |-> "authorization", value |-> <<"Bearer ", "T1">>] >>}}
    \cup {[kind |-> "response_headers", headers |-> [nil |-> FALSE, headers |-> <<>>]]}

RecvMain(s) == RecvOn(s, MainEvents)

NextMain ==
  \/ Poll
  \/ Timeout
  \/ LoadConfig
  \/ Listen
  \/ ListenFails
  \/ WriteFile
  \/ RecvMain(TheStream)
  \/ ExchangeReply(TheStream)
  \/ SendOk(TheStream)
  \/ SendErr(TheStream)
  \/ RecvErr(TheStream)
  \/ CtxDone(TheStream)

SpecMain == InitMain /\ [][NextMain]_vars

\* -------------------------- one loadConfig beside concurrent getConfig calls
\* the server holds some configuration; a loadConfig is about to run while
\* handlers call getConfig
InitLock ==
  /\ globalConfig \in {ZeroConfig, OldConfig}
  /\ before = globalConfig
  /\ StreamsIdle
  /\ variant = "go-processor"
  /\ phase = "serving"
  /\ env \in Environments
  /\ files \in {NoFiles, BothFiles}
  /\ seen = files
  /\ reads = {}
  /\ clock = 0
  /\ polls = 0
  /\ waitResult = "none"
  /\ readiness = "no"
  /\ mu = Unlocked
  /\ lpc = [at |-> "idle", written |-> 0]
  /\ rpc = [r \in Readers |-> [at |-> "idle", read |-> 0]]
  /\ rbuf = [r \in Readers |-> NoTuple]
  /\ NoValidator
  /\ NoWebhook

\* loadConfig: globalConfig.mu.Lock()
LoadLock ==
  /\ lpc.at = "idle"
  /\ CanLock(mu)
  /\ mu' = [mu EXCEPT !.writer = TRUE]
  /\ lpc' = [at |-> "locked", written |-> 0]
  /\ UNCHANGED <<globalConfig, streamVars, startVars, valVars, hookVars, before, rpc, rbuf>>

\* loadConfig: the next assignment to a field of globalConfig
LoadWrite ==
  /\ lpc.at = "locked"
  /\ lpc.written < Len(LoadOrder)
  /\ LET field == LoadOrder[lpc.written + 1]
     IN  globalConfig' = [globalConfig EXCEPT ![field] = loadConfig(before, env, files)[field]]
  /\ lpc' = [lpc EXCEPT !.written = @ + 1]
  /\ UNCHANGED <<streamVars, startVars, valVars, hookVars, mu, before, rpc, rbuf>>

\* loadConfig returns: the deferred globalConfig.mu.Unlock()
LoadUnlock ==
  /\ lpc.at = "locked"
  /\ lpc.written = Len(LoadOrder)
  /\ mu' = [mu EXCEPT !.writer = FALSE]
  /\ lpc' = [lpc EXCEPT !.at = "done"]
  /\ UNCHANGED <<globalConfig, streamVars, startVars, valVars, hookVars, before, rpc, rbuf>>

\* getConfig: globalConfig.mu.RLock()
GetRLock(r) ==
  /\ rpc[r].at = "idle"
  /\ CanRLock(mu)
  /\ mu' = [mu EXCEPT !.readers = @ + 1]
  /\ rpc' = [rpc EXCEPT ![r] = [at |-> "locked", read |-> 0]]
  /\ UNCHANGED <<globalConfig, streamVars, startVars, valVars, hookVars, lpc, before, rbuf>>

\* getConfig: the return statement reads the next field
GetRead(r) ==
  /\ rpc[r].at = "locked"
  /\ rpc[r].read < Len(ReadOrder)
  /\ LET field == ReadOrder[rpc[r].read + 1]
     IN  rbuf' = [rbuf EXCEPT ![r][field] = globalConfig[field]]
  /\ rpc' = [rpc EXCEPT ![r].read = @ + 1]
  /\ UNCHANGED <<globalConfig, streamVars, startVars, valVars, hookVars, mu, lpc, before>>

\* getConfig returns its five results: the deferred globalConfig.mu.RUnlock()
GetReturn(r) ==
  /\ rpc[r].at = "locked"
  /\ rpc[r].read = Len(ReadOrder)
  /\ mu' = [mu EXCEPT !.readers = @ - 1]
  /\ rpc' = [rpc EXCEPT ![r].at = "done"]
  /\ UNCHANGED <<globalConfig, streamVars, startVars, valVars, hookVars, lpc, before, rbuf>>

\* the handler is done with the tuple and may call getConfig again
GetAgain(r) ==
  /\ rpc[r].at = "done"
  /\ rpc' = [rpc EXCEPT ![r] = [at |-> "idle", read |-> 0]]
  /\ rbuf' = [rbuf EXCEPT ![r] = NoTuple]
  /\ UNCHANGED <<globalConfig, streamVars, startVars, valVars, hookVars, mu, lpc, before>>

NextLock ==
  \/ LoadLock
  \/ LoadWrite
  \/ LoadUnlock
  \/ \E r \in Readers :
       \/ GetRLock(r)
       \/ GetRead(r)
       \/ GetReturn(r)
       \/ GetAgain(r)

SpecLock == InitLock /\ [][NextLock]_vars

\* ---------------------------------------------------- demo-app: validator
InitValidator ==
  /\ globalConfig = ZeroConfig
  /\ StreamsIdle
  /\ Serving
  /\ NoLoad
  /\ venv \in ValidatorEnvironments
  /\ vphase = "start"
  /\ vreq = NoRequest
  /\ vresp = NoAnswer
  /\ vlast = NoExchange
  /\ NoWebhook

\* main: the three required variables, then ListenAndServe
ValidatorMain ==
  /\ vphase = "start"
  /\ vphase' = validatorMain(venv)
  /\ UNCHANGED <<globalConfig, streamVars, startVars, lockVars, hookVars, venv, vreq, vresp, vlast>>

\* authHandler answers one request
Handle ==
  /\ vphase = "serving"
  /\ \E r \in Requests :
       /\ vreq' = r
       /\ vresp' = authHandler(r, venv.ISSUER, venv.AUDIENCE)
  /\ vlast' = [req |-> vreq, resp |-> vresp]
  /\ UNCHANGED <<globalConfig, streamVars, startVars, lockVars, hookVars, venv, vphase>>

NextValidator == ValidatorMain \/ Handle

SpecValidator == InitValidator /\ [][NextValidator]_vars
\* ------------------------------------------------ specification: webhook
\* The API server sends the object of every create and update through the
\* webhook again: AuthBridgeWebhook.Handle, which allows a kind it does not
\* know unchanged, and for an MCPServer MCPServerCustomDefaulter.Default.
\* Labels, annotations and the namespace stay as they were at the first request.
MaxRequests == 2

InitWebhook ==
  /\ globalConfig = ZeroConfig
  /\ StreamsIdle
  /\ Serving
  /\ NoLoad
  /\ NoValidator
  /\ object \in [Kind : Kinds, Labels : WorkloadLabels, Annotations : CRAnnotations, Spec : PodSpecs]
  /\ namespace \in Namespaces
  /\ admitted = 0
  /\ last = NoAdmission

\* AuthBridgeWebhook.Handle; the patch of an allowed response is applied
AdmitWorkload ==
  /\ admitted < MaxRequests
  /\ LET r == AuthBridgeWebhookHandle(object.Kind, object.Spec, namespace, object.Labels)
     IN  /\ object' = [object EXCEPT !.Spec = r.podSpec]
         /\ last' = [op |-> "Handle", before |-> object.Spec, response |-> r.response,
                     mutated |-> (r.response = "patched"), gets |-> r.gets]
  /\ admitted' = admitted + 1
  /\ UNCHANGED <<globalConfig, streamVars, startVars, lockVars, valVars, namespace>>

\* MCPServerCustomDefaulter.Default: MutatePodSpec on the pod template of the
\* MCPServer; an error rejects the request and the object stays as it was
Default ==
  /\ admitted < MaxRequests
  /\ object.Kind = "MCPServer"
  /\ LET r == MutatePodSpec(object.Spec, namespace, object.Annotations)
     IN  /\ object' = [object EXCEPT !.Spec = r.podSpec]
         /\ last' = [op |-> "Default", before |-> object.Spec,
                     response |-> (IF r.err THEN "error" ELSE "nil"),
                     mutated |-> r.mutated, gets |-> r.gets]
  /\ admitted' = admitted + 1
  /\ UNCHANGED <<globalConfig, streamVars, startVars, lockVars, valVars, namespace>>

NextWebhook == AdmitWorkload \/ Default

SpecWebhook == InitWebhook /\ [][NextWebhook]_vars
\* ------------------------------------------- specification: two streams
\* Two streams run Process side by side, as gRPC starts one goroutine per
\* stream.  The token endpoint may hand out a different token per exchange.
TheOther == 2
Pair == {TheStream, TheOther}
PairEvents ==
  {[kind |-> "request_headers", headers |-> hm] :
     hm \in {[nil |-> TRUE, headers |-> <<>>],
             [nil |-> FALSE, headers |-> <<>>],
             [nil |-> FALSE, headers |-> << [key |-> "authorization", value |-> <<"Bearer ", "T1">>] >>]}}
    \cup {[kind |-> "response_headers", headers |-> [nil |-> FALSE, headers |-> <<>>]]}
PairReplies ==
  { [transport |-> "post_failed", status |-> 0, body |-> NoBody],
    [transport |-> "ok", status |-> 400,
     body |-> [json |-> TRUE, fields |-> {"error", "error_description"},
               access_token |-> <<>>, text |-> "error"]] }
    \cup {[transport |-> "ok", status |-> StatusOK,
           body |-> [json |-> TRUE, fields |-> {"access_token", "token_type", "expires_in"},
                     access_token |-> <<t>>, text |-> "token"]] : t \in {"T2", "T3"}}

InitPair ==
  /\ globalConfig \in Config
  /\ crashed = FALSE
  /\ pc = [s \in Pair |-> "recv"]
  /\ ret = [s \in Pair |-> "none"]
  /\ cur = [s \in Pair |-> NoEvent]
  /\ form = [s \in Pair |-> NoForm]
  /\ posts = [s \in Pair |-> 0]
  /\ reply = [s \in Pair |-> NoReply]
  /\ result = [s \in Pair |-> NoResult]
  /\ resp = [s \in Pair |-> EmptyResponse]
  /\ outstanding = [s \in Pair |-> 0]
  /\ canceled = [s \in Pair |-> FALSE]
  /\ sentCanceled = [s \in Pair |-> FALSE]
  /\ Serving
  /\ NoLoad
  /\ NoValidator
  /\ NoWebhook

RecvPair(s) == RecvOn(s, PairEvents)
ExchangeReplyPair(s) == ExchangeReplyOn(s, PairReplies)

NextPair ==
  \E s \in Pair :
    \/ RecvPair(s)
    \/ ExchangeReplyPair(s)
    \/ SendOk(s)
    \/ SendErr(s)
    \/ RecvErr(s)
    \/ CtxDone(s)

SpecPair == InitPair /\ [][NextPair]_vars
\* ------------------------------------------------------------ type check
TypeOK ==
  /\ globalConfig \in Config
  /\ crashed \in BOOLEAN
  /\ \A s \in Streams :
       /\ pc[s] \in {"recv", "exchange", "send", "returned", "panic"}
       /\ cur[s] \in Events \cup {NoEvent}
       /\ reply[s] \in Replies \cup {NoReply}
       /\ ret[s] \in {"none", "ctx.Err", "cannot receive stream request", "cannot send stream response"}
       /\ posts[s] \in 0..1
       /\ outstanding[s] \in 0..1
       /\ canceled[s] \in BOOLEAN
       /\ sentCanceled[s] \in BOOLEAN
  /\ phase = "serving"

\* ================================================================ claims
\* what the claims say about an event, stated without the code's helpers
IsAuthorization(h) == ToLower(h.key) = "authorization"
AuthorizationHeaders(e) == IF e.headers.nil THEN <<>> ELSE SelectSeq(e.headers.headers, IsAuthorization)
CarriesNoAuthorization(e) == AuthorizationHeaders(e) = <<>>
HasBearerPrefix(v) == Len(v) > 0 /\ v[1] \in {"Bearer ", "bearer "}
CarriesBearer(e) ==
  /\ e.kind = "request_headers"
  /\ AuthorizationHeaders(e) # <<>>
  /\ HasBearerPrefix(Head(AuthorizationHeaders(e)).value)
CarriesOtherScheme(e) ==
  /\ e.kind = "request_headers"
  /\ AuthorizationHeaders(e) # <<>>
  /\ ~HasBearerPrefix(Head(AuthorizationHeaders(e)).value)
SomeFieldEmpty(c) ==
  \/ c.ClientID = "" \/ c.ClientSecret = "" \/ c.TokenURL = ""
  \/ c.TargetAudience = "" \/ c.TargetScopes = ""
Success2xx(r) == r.transport = "ok" /\ r.status \in 200..299
Unmodified(r) == r.setHeaders = <<>> /\ r.removeHeaders = <<>>

\* C1: with a configuration in which some field is empty, no stream ever posts
\* to the token endpoint, and every request-headers event, whatever its
\* headers, is answered with the unmodified request-headers response.
C1_ConfigGate ==
  SomeFieldEmpty(globalConfig) =>
    /\ ~crashed
    /\ \A s \in Streams :
         /\ posts[s] = 0
         /\ pc[s] \notin {"exchange", "panic"}
         /\ cur[s].kind = "request_headers" =>
              pc[s] = "send" /\ resp[s] = UnmodifiedRequestHeaders
C1_Witness ==
  \E s \in Streams :
    /\ globalConfig.TargetScopes = "" /\ globalConfig.ClientID # ""
    /\ pc[s] = "send" /\ CarriesBearer(cur[s])
    /\ resp[s] = UnmodifiedRequestHeaders

\* C2: with a complete configuration and a bearer Authorization header, when
\* the token endpoint answers 200 with a body whose access_token is T2, the
\* response to the event sets authorization to "Bearer T2" and does nothing
\* else: one entry in setHeaders, none in removeHeaders.
C2_SuccessRewritesOneHeader ==
  \A s \in Streams :
    ( /\ pc[s] = "send" /\ CarriesBearer(cur[s])
      /\ reply[s].transport = "ok" /\ reply[s].status = StatusOK
      /\ reply[s].body.json /\ "access_token" \in reply[s].body.fields )
    => /\ resp[s].kind = "request_headers"
       /\ resp[s].setHeaders =
            << [key |-> "authorization", value |-> <<"Bearer ">> \o reply[s].body.access_token] >>
       /\ resp[s].removeHeaders = <<>>
C2_Witness ==
  \E s \in Streams :
    /\ pc[s] = "send" /\ CarriesBearer(cur[s])
    /\ reply[s].transport = "ok" /\ reply[s].status = StatusOK
    /\ reply[s].body.access_token = <<"T2">>
    /\ resp[s].setHeaders = << [key |-> "authorization", value |-> <<"Bearer ", "T2">>] >>

\* C3: when the exchange for a request-headers event fails (the POST or the
\* reading of its answer fails, the endpoint answers with a status that is not
\* 2xx, or the body is not JSON), the response for the event is the unmodified
\* request-headers response.
ExchangeFailed(r) ==
  \/ r.transport \in {"post_failed", "read_failed"}
  \/ r.transport = "ok" /\ r.status \notin 200..299
  \/ r.transport = "ok" /\ ~r.body.json
C4_NoAuthorizationPassThrough ==
  \A s \in Streams :
    (cur[s].kind = "request_headers" /\ CarriesNoAuthorization(cur[s]))
    => /\ pc[s] = "send"
       /\ resp[s] = UnmodifiedRequestHeaders
       /\ posts[s] = 0

\* C5: the Authorization header is found whatever the case of its name: with a
\* complete configuration a bearer value under any spelling of the name leads
\* to an exchange, and a value without the `Bearer `/`bearer ` prefix is
\* answered with the unmodified response and no call to the token endpoint.
C5_UnrecognizedPrefix ==
  \A s \in Streams :
    /\ CarriesOtherScheme(cur[s]) =>
         pc[s] = "send" /\ resp[s] = UnmodifiedRequestHeaders /\ posts[s] = 0
    /\ (CarriesBearer(cur[s]) /\ ConfigComplete(globalConfig)) =>
         pc[s] \in {"exchange", "send"} /\ posts[s] = 1
C5_Witness ==
  \E s \in Streams :
    /\ ConfigComplete(globalConfig)
    /\ pc[s] = "send" /\ cur[s].kind = "request_headers"
    /\ ~cur[s].headers.nil /\ Len(cur[s].headers.headers) > 0
    /\ cur[s].headers.headers[1] = [key |-> "Authorization", value |-> <<"Basic ", "T1">>]
    /\ resp[s] = UnmodifiedRequestHeaders /\ posts[s] = 0

\* C6: a 2xx answer whose body is not JSON, or is JSON without access_token,
\* is an exchange error: the event is answered with the unmodified response.
C6_MissingTokenIsError ==
  \A s \in Streams :
    ( /\ pc[s] = "send" /\ posts[s] > 0 /\ Success2xx(reply[s])
      /\ (~reply[s].body.json \/ "access_token" \notin reply[s].body.fields) )
    => /\ result[s].err # NoErr
       /\ resp[s] = UnmodifiedRequestHeaders

\* C7: for every answer of the token endpoint with a status that is not 2xx,
\* exchangeToken returns an error that carries the body of the answer, and no
\* token.
C7_BadStatusIsErrorWithBody ==
  \A s \in Streams :
    (reply[s].transport = "ok" /\ reply[s].status \notin 200..299)
    => /\ result[s].err # NoErr
       /\ result[s].err.body = reply[s].body
       /\ result[s].token = <<>>
C7_Witness ==
  \E s \in Streams :
    /\ reply[s].transport = "ok" /\ reply[s].status = 400
    /\ reply[s].body.text = "error"
    /\ result[s].err.kind = "status" /\ result[s].err.body.text = "error"

\* C8: handling one event posts to the token endpoint at most once, also after
\* a failure, and every request-headers event with a complete configuration
\* and a bearer token has its own POST: the token it sets is the one that this
\* POST returned.
C8_OneExchangePerEvent ==
  \A s \in Streams :
    /\ posts[s] <= 1
    /\ (pc[s] = "send" /\ CarriesBearer(cur[s]) /\ ConfigComplete(globalConfig))
         => /\ posts[s] = 1
            /\ reply[s] \in Replies
            /\ resp[s].setHeaders # <<>> =>
                 resp[s].setHeaders[1].value = <<"Bearer ">> \o reply[s].body.access_token
    /\ pc[s] = "recv" => posts[s] = 0 /\ reply[s] = NoReply /\ result[s] = NoResult
C8_Witness ==
  \E s \in Streams :
    /\ pc[s] = "send" /\ CarriesBearer(cur[s]) /\ ConfigComplete(globalConfig)
    /\ posts[s] = 1 /\ ExchangeFailed(reply[s])

\* C9: on every stream at most one event is received and not yet answered; the
\* next event is received only when the response to the previous one has been
\* sent, and the response built for a request-headers or response-headers
\* event is of the kind of that event.
C9_LockStep ==
  \A s \in Streams :
    /\ outstanding[s] \in {0, 1}
    /\ pc[s] = "recv" => outstanding[s] = 0
    /\ pc[s] \in {"exchange", "send"} => outstanding[s] = 1
    /\ (pc[s] = "send" /\ cur[s].kind \in {"request_headers", "response_headers"})
         => resp[s].kind = cur[s].kind
C9_Witness ==
  \E s \in Streams :
    /\ pc[s] = "send" /\ cur[s].kind = "response_headers"
    /\ outstanding[s] = 1 /\ resp[s].kind = "response_headers"

\* C10: a response-headers event is answered with the unmodified
\* response-headers response and causes no exchange, for every configuration
\* and every header content.
C10_ResponseNeverMutated ==
  \A s \in Streams :
    cur[s].kind = "response_headers"
    => /\ pc[s] = "send"
       /\ resp[s] = UnmodifiedResponseHeaders
       /\ posts[s] = 0
C10_Witness ==
  \E s \in Streams :
    /\ ConfigComplete(globalConfig)
    /\ pc[s] = "send" /\ cur[s].kind = "response_headers"
    /\ CarriesBearer([kind |-> "request_headers", headers |-> cur[s].headers])
    /\ resp[s] = UnmodifiedResponseHeaders /\ posts[s] = 0

\* ------------------------------------------------------ startup claims
\* what the claims say about the credential sources, without the code's helpers
StaticCredentials(e) == e.CLIENT_ID # "" /\ e.CLIENT_SECRET # ""
NonSpace(f) == {i \in 1..Len(f.data) : f.data[i] \notin {" ", "\n", "\t"}}
NonEmptyFile(f) == f.exists /\ NonSpace(f) # {}
FileCredential(f) == f.data[CHOOSE i \in NonSpace(f) : TRUE]
Loaded == phase \in {"listen", "serving", "failed to listen"}

\* C11 (as claimed): when CLIENT_ID and CLIENT_SECRET are set and both
\* credential files are non-empty, the ClientID and ClientSecret that loadConfig
\* resolves are the values of the environment.
C11_StaticWins ==
  (Loaded /\ StaticCredentials(env) /\ NonEmptyFile(seen.id) /\ NonEmptyFile(seen.secret))
  => /\ globalConfig.ClientID = env.CLIENT_ID
     /\ globalConfig.ClientSecret = env.CLIENT_SECRET

\* C11 (amended): with both sources present, loadConfig of go-processor
\* resolves ClientID and ClientSecret to the trimmed contents of the files, and
\* loadConfig of the quickstart resolves them to the values of the environment.
C11_PriorityByVariant ==
  (Loaded /\ StaticCredentials(env) /\ NonEmptyFile(seen.id) /\ NonEmptyFile(seen.secret))
  => IF variant = "go-processor"
     THEN /\ globalConfig.ClientID = FileCredential(seen.id)
          /\ globalConfig.ClientSecret = FileCredential(seen.secret)
     ELSE /\ globalConfig.ClientID = env.CLIENT_ID
          /\ globalConfig.ClientSecret = env.CLIENT_SECRET
C11_Witness ==
  /\ variant = "go-processor" /\ phase = "serving"
  /\ env.CLIENT_ID = "env-client" /\ env.CLIENT_SECRET = "env-secret"
  /\ seen.id.data = <<"file-client", "\n">> /\ seen.secret.data = <<"file-secret", "\n">>
  /\ globalConfig.ClientID = "file-client" /\ globalConfig.ClientSecret = "file-secret"

\* C12 (as claimed): with CLIENT_ID and CLIENT_SECRET both set, startup never
\* reads or polls the credential files and spends no time waiting for them.
C12_StaticSkipsFiles ==
  StaticCredentials(env) => polls = 0 /\ reads = {} /\ clock = 0

\* C12 (amended): with CLIENT_ID and CLIENT_SECRET both set, the go-processor
\* still polls the files: waitForCredentials has polled at least once when it
\* returns, it returns false only when MaxWait has passed, and loadConfig then
\* reads both files.  Only the quickstart, which has no wait, leaves the files
\* alone.
C12_StaticStillWaits ==
  StaticCredentials(env) =>
    IF variant = "go-processor"
    THEN /\ phase # "wait" => polls >= 1 /\ waitResult \in {"true", "false"}
         /\ waitResult = "false" => clock >= MaxWait
         /\ Loaded => reads = {"id", "secret"}
    ELSE polls = 0 /\ clock = 0 /\ reads = {} /\ waitResult = "none"
C12_Witness ==
  /\ variant = "go-processor" /\ phase = "serving"
  /\ env.CLIENT_ID = "env-client" /\ env.CLIENT_SECRET = "env-secret"
  /\ waitResult = "false" /\ clock = MaxWait /\ polls = MaxWait \div PollInterval
  /\ globalConfig.ClientID = "env-client" /\ globalConfig.ClientSecret = "env-secret"

\* main is one goroutine that is scheduled as long as it can take a step: the
\* loop of waitForCredentials, its return, loadConfig, net.Listen
MainStep == Poll \/ Timeout \/ LoadConfig \/ Listen \/ ListenFails
SpecMainFair == SpecMain /\ WF_vars(MainStep)

\* C13: waitForCredentials polls at most MaxWait / PollInterval times and is
\* never found waiting a poll interval past MaxWait; when the files never
\* become non-empty it returns false, no later than that, and main goes on to
\* loadConfig and to net.Listen (serving, unless the port cannot be had).
C13_BoundedWait ==
  /\ [](/\ polls <= MaxWait \div PollInterval
        /\ phase = "wait" => clock < MaxWait + PollInterval
        /\ waitResult = "false" => clock >= MaxWait /\ clock < MaxWait + PollInterval)
  /\ (variant = "go-processor" /\ []~CredentialsReady(files)) =>
       <>(waitResult = "false" /\ phase \in {"serving", "failed to listen"})
C13_Witness ==
  /\ variant = "go-processor" /\ phase = "serving"
  /\ files = NoFiles /\ seen = NoFiles
  /\ waitResult = "false" /\ clock = MaxWait /\ polls = MaxWait \div PollInterval
  /\ globalConfig.ClientID = ""

\* a credential that neither the environment nor its file gave to loadConfig
Unresolved(value, file) == value = "" /\ ~NonEmptyFile(file)

\* C14: when loadConfig found the client id or the client secret in neither
\* origin, main still goes on to net.Listen (nothing but the listener can stop
\* it), no handler crashes, nothing is posted to the token endpoint and every
\* request-headers event is answered with the unmodified response.
C14_AbsentCredentialsNotFatal ==
  (Loaded /\ (Unresolved(env.CLIENT_ID, seen.id) \/ Unresolved(env.CLIENT_SECRET, seen.secret)))
  => /\ ~crashed
     /\ phase = "listen" => ENABLED Listen
     /\ \A s \in Streams :
          /\ posts[s] = 0
          /\ pc[s] \notin {"exchange", "panic"}
          /\ cur[s].kind = "request_headers" =>
               pc[s] = "send" /\ resp[s] = UnmodifiedRequestHeaders
C14_Witness ==
  /\ phase = "serving" /\ variant = "go-processor"
  /\ env.CLIENT_ID = "" /\ env.CLIENT_SECRET = "" /\ env.TOKEN_URL # ""
  /\ seen = NoFiles /\ waitResult = "false"
  /\ globalConfig.ClientID = "" /\ globalConfig.ClientSecret = ""
  /\ pc[TheStream] = "send" /\ CarriesBearer(cur[TheStream])
  /\ resp[TheStream] = UnmodifiedRequestHeaders

\* --------------------------------------------------------- lock claims
\* the configuration after the load, from what loadConfig is given
AfterLoad == loadConfig(before, env, files)

\* C15: whatever the interleaving of one loadConfig with the getConfig calls
\* of the readers, the five results a getConfig returns are the configuration
\* before the load or the configuration after it, never fields of both.
C15_NoTornRead ==
  \A r \in Readers :
    rpc[r].at = "done" => rbuf[r] = before \/ rbuf[r] = AfterLoad
C15_Witness ==
  \E r1, r2 \in Readers :
    /\ before = OldConfig /\ AfterLoad # before
    /\ \A f \in DOMAIN before : AfterLoad[f] # before[f]
    /\ rpc[r1].at = "done" /\ rbuf[r1] = before
    /\ rpc[r2].at = "done" /\ rbuf[r2] = AfterLoad
    /\ lpc.at = "done"

\* ------------------------------------------------------- stream claims
\* C16: once the context of a stream is done, Process calls stream.Send on it
\* no more, also when the context is done while the exchange for the current
\* event is in flight.
C16_NoSendAfterCancel ==
  \A s \in Streams : ~sentCanceled[s]

\* C17: when exchangeToken returns an error, of whatever kind, Process does
\* not return: the event has its response ready to be sent, the stream is
\* still open with that one event outstanding, and (in a process that no
\* other handler has brought down) it goes back to Recv as soon as the Send
\* succeeds.
C17_FailOpenNeverAborts ==
  \A s \in Streams :
    (posts[s] > 0 /\ reply[s] # NoReply /\ result[s].err # NoErr)
    => /\ pc[s] = "send"
       /\ ret[s] = "none"
       /\ resp[s] = UnmodifiedRequestHeaders
       /\ outstanding[s] = 1
       /\ ~crashed => ENABLED SendOk(s)
C17_Witness ==
  \E s \in Streams :
    /\ pc[s] = "send" /\ posts[s] = 1 /\ ret[s] = "none"
    /\ reply[s].transport = "post_failed" /\ result[s].err.kind = "post"
    /\ resp[s] = UnmodifiedRequestHeaders

\* C18: when an exchange is attempted, the subject_token of the form is the
\* value of the Authorization header without its leading `Bearer ` or `bearer `
\* and with nothing else taken away, and client_id, client_secret, audience
\* and scope are the fields of the configuration.
C18_SubjectTokenIsRemainder ==
  \A s \in Streams :
    posts[s] > 0
    => LET value == Head(AuthorizationHeaders(cur[s])).value
       IN  /\ HasBearerPrefix(value)
           /\ form[s].subject_token = Tail(value)
           /\ form[s].client_id = globalConfig.ClientID
           /\ form[s].client_secret = globalConfig.ClientSecret
           /\ form[s].audience = globalConfig.TargetAudience
           /\ form[s].scope = globalConfig.TargetScopes

\* ------------------------------------------------------ validator claims
\* what the claims say about a request, without the code's helpers
BearerToken(r) == Len(r.authorization) = 2 /\ r.authorization[1] = "Bearer "
SignatureValid(r) == BearerToken(r) /\ r.jwks = "ok" /\ r.authorization[2].parse = "ok"

\* C19: a request whose token verifies against the key set and whose iss is
\* not the expected issuer is rejected by validateJWT for its issuer and
\* answered with 401.
C19_WrongIssuerRejected ==
  (vphase = "serving" /\ SignatureValid(vreq) /\ vreq.authorization[2].iss # venv.ISSUER)
  => /\ vresp.err = "invalid issuer"
     /\ vresp.status = StatusUnauthorized
     /\ vresp.body = "unauthorized"
C19_Witness ==
  /\ vphase = "serving" /\ SignatureValid(vreq)
  /\ vreq.authorization[2].iss = "http://other/realms/demo"
  /\ venv.ISSUER = "http://keycloak/realms/demo"
  /\ venv.AUDIENCE \in {vreq.authorization[2].aud[i] : i \in 1..Len(vreq.authorization[2].aud)}
  /\ vresp.status = 401

\* C20: when AUDIENCE is empty or unset, the validator serves, and every
\* request whose token verifies and has the expected issuer is answered with
\* 200 whatever its audiences.
C20_TransparentMode ==
  (venv.AUDIENCE = "" /\ venv.JWKS_URL # "" /\ venv.ISSUER # "" /\ vphase # "start")
  => /\ vphase = "serving"
     /\ (SignatureValid(vreq) /\ vreq.authorization[2].iss = venv.ISSUER)
          => vresp.status = StatusOK

\* the audiences of the token of a request
Audiences(r) == {r.authorization[2].aud[i] : i \in 1..Len(r.authorization[2].aud)}
Answered == vphase = "serving" /\ vreq # NoRequest

\* C21: with a non-empty expected audience, a request whose token verifies
\* and has the expected issuer is answered with 200 exactly when the audiences
\* of the token contain the expected audience; a token with aud = [auth-target]
\* is accepted under AUDIENCE=auth-target and rejected under
\* AUDIENCE=something-else.
C21_AudienceCheck ==
  (Answered /\ SignatureValid(vreq) /\ vreq.authorization[2].iss = venv.ISSUER
     /\ venv.AUDIENCE # "")
  => /\ vresp.status = StatusOK <=> venv.AUDIENCE \in Audiences(vreq)
     /\ vresp.status \in {StatusOK, StatusUnauthorized}
     /\ vreq.authorization[2].aud = <<"auth-target">> =>
          /\ venv.AUDIENCE = "auth-target" => vresp.status = StatusOK
          /\ venv.AUDIENCE = "something-else" => vresp.status = StatusUnauthorized
C21_Witness ==
  /\ Answered /\ SignatureValid(vreq) /\ vreq.authorization[2].iss = venv.ISSUER
  /\ venv.AUDIENCE = "auth-target"
  /\ vreq.authorization[2].aud = <<"agent-1", "auth-target">>
  /\ vresp.status = 200
  /\ SignatureValid(vlast.req) /\ vlast.req.authorization[2].aud = <<"agent-1">>
  /\ vlast.req.authorization[2].iss = venv.ISSUER /\ vlast.resp.status = 401

\* C22: a request without an Authorization header, or whose value does not
\* begin with `Bearer `, is answered with 401 and validateJWT is not called for
\* it: no key set is looked up and no token is parsed.
C22_HeaderGate ==
  (Answered /\ (vreq.authorization = <<>> \/ vreq.authorization[1] # "Bearer "))
  => /\ vresp.status = StatusUnauthorized
     /\ vresp.calls = 0
     /\ vresp.err = ""
C22_Witness ==
  /\ Answered /\ vreq.authorization = <<"Basic ", AToken>> /\ vreq.jwks = "ok"
  /\ venv.AUDIENCE = "auth-target"
  /\ vresp.status = 401 /\ vresp.calls = 0
  /\ vlast.req.authorization = <<>> /\ vlast.resp.status = 401 /\ vlast.resp.calls = 0

\* C23: two requests whose tokens are refused by validateJWT, for whatever
\* reasons, get the same status and the same body, 401 and a body that does
\* not name the reason.
Refused(x) == x.resp.calls = 1 /\ x.resp.err # "nil"
C23_UndifferentiatedRejection ==
  LET this == [req |-> vreq, resp |-> vresp]
  IN  (Answered /\ Refused(this) /\ Refused(vlast))
      => /\ vresp.status = vlast.resp.status
         /\ vresp.body = vlast.resp.body
         /\ vresp.status = StatusUnauthorized
         /\ vresp.body \notin {vresp.err, vlast.resp.err}
C23_Witness ==
  /\ Answered
  /\ vresp.err = "invalid audience" /\ vlast.resp.err = "failed to parse/validate token"
  /\ vlast.req.jwks = "ok" /\ BearerToken(vlast.req)
  /\ vlast.req.authorization[2].parse = "bad signature"
  /\ vresp.status = 401 /\ vlast.resp.status = 401 /\ vresp.body = vlast.resp.body

\* C27: every answer of the token endpoint with a 2xx status and a JSON body
\* that carries an access_token is a successful exchange: exchangeToken returns
\* the token without an error and the response sets the Authorization header
\* to it.
C27_Any2xxIsSuccess ==
  \A s \in Streams :
    ( /\ pc[s] = "send" /\ posts[s] > 0 /\ Success2xx(reply[s])
      /\ reply[s].body.json /\ "access_token" \in reply[s].body.fields )
    => /\ result[s].err = NoErr
       /\ result[s].token = reply[s].body.access_token
       /\ resp[s] = SetAuthorization(reply[s].body.access_token)


\* ---- C28 ----
ReadyAndStayed == variant = "go-processor" /\ readiness # "no" /\ CredentialsReady(files)
UsesFileCredentials(c) ==
  /\ c.ClientID = FileCredential(files.id)
  /\ c.ClientSecret = FileCredential(files.secret)

\* C28 (as claimed): when both credential files turn non-empty at some moment
\* before the startup deadline and stay so, waitForCredentials returns true,
\* loadConfig stores the file contents, and every exchange that a later
\* request-headers event starts carries those credentials.
C28_RaceAbsorbed ==
  (ReadyAndStayed /\ phase # "wait")
    => /\ waitResult = "true"
       /\ Loaded => UsesFileCredentials(globalConfig)
       /\ \A s \in Streams : posts[s] > 0 => UsesFileCredentials(
            [ClientID |-> form[s].client_id, ClientSecret |-> form[s].client_secret])

\* C28 (amended): when both credential files turn non-empty during the wait and
\* stay so, waitForCredentials returns true if a poll was still to come and
\* false if they turned non-empty during its last sleep; either way loadConfig
\* stores the file contents and every exchange that a later request-headers
\* event starts carries those credentials.
C28_RaceAbsorbedOrLateButLoaded ==
  (ReadyAndStayed /\ phase # "wait")
    => /\ waitResult = (IF readiness = "in time" THEN "true" ELSE "false")
       /\ Loaded => UsesFileCredentials(globalConfig)
       /\ \A s \in Streams : posts[s] > 0 => UsesFileCredentials(
            [ClientID |-> form[s].client_id, ClientSecret |-> form[s].client_secret])

\* files that were missing at the first poll were found by a later one, and an
\* exchange with the file credentials is under way
C28_Witness ==
  /\ ReadyAndStayed /\ readiness = "in time" /\ waitResult = "true" /\ polls > 1
  /\ phase = "serving" /\ env.CLIENT_ID = ""
  /\ \E s \in Streams : posts[s] > 0 /\ form[s].client_id = FileCredential(files.id)


\* ---- C29 ----
IsUnknown(e) == e # NoEvent /\ e.kind \notin {"request_headers", "response_headers"}

\* C29: an event that is neither request-headers nor response-headers starts no
\* token exchange, puts no header mutation in the response, and leaves the
\* stream at its Send, after which Process receives again.
C29_UnknownEventsIgnored ==
  \A s \in Streams :
    IsUnknown(cur[s]) =>
      /\ pc[s] = "send" /\ ret[s] = "none"
      /\ posts[s] = 0 /\ form[s] = NoForm /\ reply[s] = NoReply
      /\ resp[s] = EmptyResponse
      /\ (~crashed /\ ~canceled[s]) => ENABLED SendOk(s)

\* a request-body event waits at Send of a processor with a complete configuration
C29_Witness ==
  \E s \in Streams :
    /\ IsUnknown(cur[s]) /\ pc[s] = "send" /\ ret[s] = "none"
    /\ ConfigComplete(globalConfig) /\ ~crashed


\* ---- C24 ----
Has(m, k, v) == k \in DOMAIN m /\ m[k] = v
CROptOut == Has(object.Annotations, "kagenti.dev/inject", "false")
CROptIn == Has(object.Annotations, "kagenti.dev/inject", "true")
NamespaceLabelOn == namespace.found /\ Has(namespace.Labels, "kagenti-enabled", "true")
NamespaceAnnotationOn == namespace.found /\ Has(namespace.Annotations, "kagenti.dev/inject", "true")
Injected(spec) ==
  \E i \in 1..Len(spec.Containers) : spec.Containers[i].Name = "kagenti-client-registration"

\* C24: for an MCPServer (or Agent) the decision of ShouldMutate follows the
\* priority CR annotation kagenti.dev/inject=false (off), =true (on), namespace
\* label kagenti-enabled=true (on), namespace annotation kagenti.dev/inject=true
\* (on), else off; with either CR annotation the namespace is not even fetched.
C24_InjectionPriority ==
  last.op = "Default" =>
    /\ last.mutated = (IF CROptOut THEN FALSE
                       ELSE IF CROptIn THEN TRUE
                       ELSE IF NamespaceLabelOn THEN TRUE
                       ELSE IF NamespaceAnnotationOn THEN TRUE
                       ELSE FALSE)
    /\ (CROptOut \/ CROptIn) => last.gets = 0 /\ last.response = "nil"
    /\ last.mutated => Injected(object.Spec)
    /\ ~last.mutated => object.Spec = last.before

\* an MCPServer that opts out in a namespace whose label enables injection
\* went through Default and was left alone
C24_Witness ==
  /\ last.op = "Default" /\ CROptOut /\ NamespaceLabelOn
  /\ ~last.mutated /\ ~Injected(object.Spec)


\* ---- C25 ----
HasInjectLabel == "kagenti.io/inject" \in DOMAIN object.Labels
Decided == last.op = "Handle" /\ last.response \in {"patched", "injection not enabled", "errored"}

\* C25: NeedsMutation answers for a workload with the label kagenti.io/inject
\* true exactly when the value is `enabled`, without fetching the namespace;
\* for a workload without the label it answers true exactly when the namespace
\* has the label kagenti-enabled=true; and Handle injects accordingly.
C25_WorkloadLabelDecides ==
  LET d == NeedsMutation(namespace, object.Labels)
  IN  /\ HasInjectLabel => /\ d.ok = (object.Labels["kagenti.io/inject"] = "enabled")
                           /\ d.gets = 0 /\ ~d.err
      /\ ~HasInjectLabel => d.ok = NamespaceLabelOn /\ d.gets = 1
      /\ Decided => /\ last.mutated = d.ok
                    /\ last.gets = d.gets
                    /\ last.mutated = Injected(object.Spec)

\* a workload labelled kagenti.io/inject=disabled in a namespace labelled
\* kagenti-enabled=true went through Handle and was not injected
C25_Witness ==
  /\ Decided /\ Has(object.Labels, "kagenti.io/inject", "disabled") /\ NamespaceLabelOn
  /\ last.response = "injection not enabled" /\ ~Injected(object.Spec) /\ last.gets = 0


\* ---- C26 ----
SpireLabelEnabled == Has(object.Labels, "kagenti.io/spire", "enabled")
SpireVolumes == {"spire-agent-socket", "spiffe-helper-config", "svid-output"}
ContainerNames(spec) == {spec.Containers[i].Name : i \in 1..Len(spec.Containers)}
VolumeNames(spec) == {spec.Volumes[i].Name : i \in 1..Len(spec.Volumes)}
\* what an application added to the pod spec
AddedContainers == ContainerNames(object.Spec) \ ContainerNames(last.before)
AddedVolumes == VolumeNames(object.Spec) \ VolumeNames(last.before)

\* C26: when InjectAuthBridge injects, it adds the spiffe-helper container and
\* the volumes spire-agent-socket, spiffe-helper-config and svid-output if the
\* workload label kagenti.io/spire is `enabled`, and none of them if the label
\* is absent or has another value.
C26_SpireOption ==
  (last.op = "Handle" /\ last.mutated) =>
    IF SpireLabelEnabled
    THEN "spiffe-helper" \in AddedContainers /\ SpireVolumes \subseteq AddedVolumes
    ELSE "spiffe-helper" \notin ContainerNames(object.Spec)
         /\ SpireVolumes \cap VolumeNames(object.Spec) = {}

\* a workload labelled kagenti.io/spire=disabled was injected without
\* spiffe-helper and without the SPIRE volumes
C26_Witness ==
  /\ last.op = "Handle" /\ last.mutated
  /\ Has(object.Labels, "kagenti.io/spire", "disabled")
  /\ AddedContainers = {"kagenti-client-registration", "envoy-proxy"}
  /\ AddedVolumes = {"shared-data", "envoy-config"}


\* ---- C30 ----
NoDuplicates(seq) == \A i, j \in 1..Len(seq) : seq[i].Name = seq[j].Name => i = j
Occurrences(seq, name) == Cardinality({i \in 1..Len(seq) : seq[i].Name = name})
\* the names an injection with or without SPIRE leaves in the pod spec
SidecarNames(spire) ==
  {"kagenti-client-registration", "envoy-proxy"} \cup (IF spire THEN {"spiffe-helper"} ELSE {})
RequiredVolumeNames(spire) ==
  {"shared-data", "envoy-config"} \cup (IF spire THEN SpireVolumes ELSE {})

\* C30: applied to a pod spec that it has already mutated, with the same
\* labels, annotations and namespace, Handle, InjectAuthBridge and MutatePodSpec
\* each leave the pod spec as it is; and after any number of requests no
\* container, init container or volume name occurs twice, and each injected
\* name occurs once.
C30_InjectionIdempotent ==
  /\ NoDuplicates(object.Spec.Containers)
  /\ NoDuplicates(object.Spec.InitContainers)
  /\ NoDuplicates(object.Spec.Volumes)
  /\ last.op = "Handle" =>
       /\ AuthBridgeWebhookHandle(object.Kind, object.Spec, namespace, object.Labels).podSpec = object.Spec
       /\ last.mutated =>
            /\ InjectAuthBridge(object.Spec, namespace, object.Labels).podSpec = object.Spec
            /\ \A n \in SidecarNames(SpireLabelEnabled) : Occurrences(object.Spec.Containers, n) = 1
            /\ Occurrences(object.Spec.InitContainers, "proxy-init") = 1
            /\ \A n \in RequiredVolumeNames(SpireLabelEnabled) : Occurrences(object.Spec.Volumes, n) = 1
  /\ last.op = "Default" =>
       /\ MutatePodSpec(object.Spec, namespace, object.Annotations).podSpec = object.Spec
       /\ last.mutated =>
            /\ \A n \in SidecarNames(TRUE) : Occurrences(object.Spec.Containers, n) = 1
            /\ \A n \in RequiredVolumeNames(TRUE) : Occurrences(object.Spec.Volumes, n) = 1
  /\ (admitted > 1 /\ Injected(last.before)) => object.Spec = last.before

\* the second Default of an injected MCPServer ran the injection again and
\* left the pod spec as the first had made it
C30_Witness ==
  /\ admitted > 1 /\ last.op = "Default" /\ last.mutated
  /\ Injected(last.before) /\ object.Spec = last.before
  /\ Occurrences(object.Spec.Containers, "spiffe-helper") = 1


\* ---- C31 ----
IsPrefix(s, t) == Len(s) <= Len(t) /\ SubSeq(t, 1, Len(s)) = s

\* C31: a mutation only appends: the containers, init containers and volumes
\* that were in the pod spec before it are afterwards its first ones, unchanged
\* and in their order, also those whose name equals an injected name.
C31_OnlyAppends ==
  last.op # "none" =>
    /\ IsPrefix(last.before.Containers, object.Spec.Containers)
    /\ IsPrefix(last.before.InitContainers, object.Spec.InitContainers)
    /\ IsPrefix(last.before.Volumes, object.Spec.Volumes)

\* a workload with its own envoy-proxy container and shared-data volume was
\* injected: both are where and what they were, and the sidecars follow
C31_Witness ==
  /\ last.mutated /\ Len(object.Spec.Containers) > Len(last.before.Containers)
  /\ Len(last.before.Containers) = 2
  /\ object.Spec.Containers[2] = Container("envoy-proxy", "", <<"shared-data">>)
  /\ object.Spec.Volumes[1] = Volume("shared-data", "PersistentVolumeClaim")
  /\ Occurrences(object.Spec.Containers, "envoy-proxy") = 1
  /\ Occurrences(object.Spec.Volumes, "shared-data") = 1


\* ---- C32 ----
\* the decision needs the namespace, and the namespace cannot be fetched
LookupFails(decisive) == ~decisive /\ ~namespace.found

\* C32: when the namespace lookup fails while the injection is decided,
\* InjectAuthBridge and MutatePodSpec return an error and the pod spec they
\* were given, and Handle answers with an errored response that patches nothing.
C32_AllOrNothingOnError ==
  /\ LookupFails(HasInjectLabel) =>
       LET r == InjectAuthBridge(object.Spec, namespace, object.Labels)
       IN  r.err /\ ~r.mutated /\ r.podSpec = object.Spec
  /\ LookupFails(CROptOut \/ CROptIn) =>
       LET r == MutatePodSpec(object.Spec, namespace, object.Annotations)
       IN  r.err /\ ~r.mutated /\ r.podSpec = object.Spec
  /\ (last.op = "Handle" /\ object.Kind = "Deployment" /\ LookupFails(HasInjectLabel)) =>
       last.response = "errored" /\ object.Spec = last.before
  /\ (last.op = "Default" /\ LookupFails(CROptOut \/ CROptIn)) =>
       last.response = "error" /\ object.Spec = last.before
  /\ last.response \in {"errored", "error"} => ~namespace.found /\ object.Spec = last.before

\* a Deployment without the inject label in a namespace that cannot be fetched
\* was rejected twice and is as it came
C32_Witness ==
  /\ admitted > 1 /\ last.op = "Handle" /\ last.response = "errored"
  /\ LookupFails(HasInjectLabel) /\ last.gets = 1
  /\ object.Spec = last.before /\ ~Injected(object.Spec) /\ object.Spec.InitContainers = <<>>


\* ---- C33 ----
IdFromFile == NonEmptyFile(seen.id) /\ globalConfig.ClientID = FileCredential(seen.id)
SecretFromFile == NonEmptyFile(seen.secret) /\ globalConfig.ClientSecret = FileCredential(seen.secret)
IdFromEnvironment == env.CLIENT_ID # "" /\ globalConfig.ClientID = env.CLIENT_ID
SecretFromEnvironment == env.CLIENT_SECRET # "" /\ globalConfig.ClientSecret = env.CLIENT_SECRET

\* C33 (as claimed): after loadConfig the stored client id and client secret
\* come from the same origin: both from the credential files or both from the
\* environment.
C33_SingleOrigin ==
  (Loaded /\ globalConfig.ClientID # "" /\ globalConfig.ClientSecret # "")
    => \/ IdFromFile /\ SecretFromFile
       \/ IdFromEnvironment /\ SecretFromEnvironment


\* ---- C34 ----
\* what the one loadConfig of main made of the environment and the files it read
AsLoaded ==
  IF variant = "go-processor" THEN loadConfig(ZeroConfig, env, seen)
  ELSE loadConfigQuickstart(ZeroConfig, env, seen)
\* the wait ran out and the files have not both been non-empty since
ReadyOnlyAfterWait ==
  /\ variant = "go-processor" /\ waitResult = "false" /\ readiness = "no"
  /\ CredentialsReady(files)

\* C34 (as claimed): credential files that become non-empty only after the
\* startup wait has elapsed are never picked up.
C34_LateFilesNeverPickedUp ==
  (Loaded /\ ReadyOnlyAfterWait) => ~UsesFileCredentials(globalConfig)

\* C34 (amended): after the one loadConfig of main no step writes the shared
\* configuration: it stays what loadConfig made of the files as they were when
\* it read them, every exchange uses it, and files that become non-empty after
\* that read are not picked up.
C34_FixedAfterLoad ==
  /\ [](Loaded => /\ globalConfig = AsLoaded
                  /\ \A s \in Streams : posts[s] > 0 =>
                       /\ form[s].client_id = globalConfig.ClientID
                       /\ form[s].client_secret = globalConfig.ClientSecret)
  /\ [][Loaded => globalConfig' = globalConfig]_vars

\* the processor serves without credentials although both files are non-empty
\* by now, and has answered a request-headers event unmodified
C34_Witness ==
  /\ phase = "serving" /\ variant = "go-processor" /\ seen = NoFiles
  /\ CredentialsReady(files) /\ globalConfig.ClientID = ""
  /\ \E s \in Streams : pc[s] = "send" /\ cur[s].kind = "request_headers" /\ posts[s] = 0


\* ---- C35 ----
\* C35 (as claimed): the configuration that a further loadConfig leaves is
\* determined by the environment and the files alone: a client id or secret
\* that has no source any more is not kept from the previous load.
C35_OnlyCurrentSources ==
  lpc.at = "done" =>
    /\ globalConfig = loadConfig(ZeroConfig, env, files)
    /\ (~NonEmptyFile(files.id) /\ env.CLIENT_ID = "") => globalConfig.ClientID = ""
    /\ (~NonEmptyFile(files.secret) /\ env.CLIENT_SECRET = "") => globalConfig.ClientSecret = ""


\* ---- C36 ----
InjectedNames ==
  {"spiffe-helper", "kagenti-client-registration", "envoy-proxy", "proxy-init",
   "shared-data", "envoy-config"} \cup SpireVolumes
NamesOf(spec) ==
  ContainerNames(spec) \cup VolumeNames(spec)
    \cup {spec.InitContainers[i].Name : i \in 1..Len(spec.InitContainers)}
MountsSatisfied(containers, spec) ==
  \A i \in 1..Len(containers) :
    containers[i].Name \in InjectedNames =>
      \A k \in 1..Len(containers[i].VolumeMounts) :
        containers[i].VolumeMounts[k] \in VolumeNames(spec)

\* C36: after an injection into a pod spec that had none of the injected
\* names, every volume mount of every injected container and init container
\* names a volume of the pod spec, with and without SPIRE.
C36_MountsSatisfied ==
  (last.mutated /\ NamesOf(last.before) \cap InjectedNames = {}) =>
    /\ MountsSatisfied(object.Spec.Containers, object.Spec)
    /\ MountsSatisfied(object.Spec.InitContainers, object.Spec)

\* a workload injected without SPIRE: client-registration mounts shared-data
\* only, and svid-output is neither mounted nor present
C36_Witness ==
  /\ last.op = "Handle" /\ last.mutated /\ ~SpireLabelEnabled
  /\ NamesOf(last.before) \cap InjectedNames = {}
  /\ \E i \in 1..Len(object.Spec.Containers) :
       /\ object.Spec.Containers[i].Name = "kagenti-client-registration"
       /\ object.Spec.Containers[i].VolumeMounts = <<"shared-data">>
  /\ "svid-output" \notin VolumeNames(object.Spec)


\* ---- C37 ----
NoHeaderMap(e) == e # NoEvent /\ e.kind = "request_headers" /\ e.headers.nil

\* C37 (as claimed): a request-headers event without a header map crashes
\* nothing, with a complete configuration as with an incomplete one: the
\* handler reaches Send with the unmodified response and the stream goes on.
C37_NoHeaderMapNeverCrashes ==
  \A s \in Streams :
    NoHeaderMap(cur[s]) =>
      /\ pc[s] # "panic"
      /\ (\A t \in Streams \ {s} : pc[t] # "panic") => ~crashed
      /\ pc[s] = "send" => resp[s] = UnmodifiedRequestHeaders /\ posts[s] = 0


\* ---- C38 ----
\* the response to the event of stream s, from what is its own
OwnResponse(s) ==
  LET d == Dispatch(globalConfig, cur[s])
  IN  IF d.pc = "exchange" THEN AfterExchange(exchangeToken(reply[s])).resp ELSE d.resp
\* at Send the response is the one its own event, the configuration and its own
\* reply give, and a token in it is the token of its own reply
OwnInputsOnly ==
  \A s \in Pair :
    (pc[s] = "send" /\ cur[s] # NoEvent) =>
      /\ resp[s] = OwnResponse(s)
      /\ \A i \in 1..Len(resp[s].setHeaders) :
           resp[s].setHeaders[i].value = <<"Bearer ">> \o reply[s].body.access_token
\* nothing another stream does keeps a stream from sending its response
NotStoppedByOthers ==
  \A s \in Pair : (pc[s] = "send" /\ ~canceled[s]) => ENABLED SendOk(s)

\* C38 (as claimed): the response to an event on one stream is given by that
\* event, the configuration and the reply to its own exchange; a token obtained
\* for one stream is not sent on the other; and no event, failure or blocked
\* exchange on the other stream changes or stops it.
C38_StreamsIndependent == OwnInputsOnly /\ NotStoppedByOthers


\* ---- C39 ----
\* C39 (as claimed): while a request-headers event is handled the log gets no
\* header named authorization or x-client-secret in any letter case, not the
\* client secret, and not the token that the token endpoint returned.
C39_SecretsNotLogged ==
  \A s \in Streams :
    cur[s].kind = "request_headers" =>
      /\ \A h \in LoggedHeaders(cur[s].headers) :
           ToLower(h.key) \notin {"authorization", "x-client-secret"}
      /\ globalConfig.ClientSecret # "" => globalConfig.ClientSecret \notin LoggedConfig(globalConfig)
      /\ posts[s] > 0 => \A b \in LoggedBodies(reply[s]) : b.access_token = <<>>
====
